---- MODULE Spec2Model ----
(***************************************************************************)
(* Verification model of the restaurant storefront: the reservation        *)
(* capacity allocator (restaurant/models.py, restaurant/forms.py, the      *)
(* reservation view) and the delivery pricing / coupon / loyalty engine    *)
(* (restaurant/views.py).                                                  *)
(*                                                                         *)
(* Time is an integer number of seconds since local midnight of day 0.     *)
(* Money is an integer number of cents.                                    *)
(***************************************************************************)
EXTENDS Integers, Sequences, FiniteSets, TLC

VARIABLES
    now,            \* timezone.now()
    menu,           \* MenuItem table: id -> [price, status]
    promotions,     \* DeliveryPromotion table, in order of creation (pk = index)
    pricing,        \* DeliveryPricing table: pk -> row
    edit,           \* the delivery_coupon_edit request in flight: the row it loaded
    telegram,       \* the Telegram collaborator, the remembered chat id and the TelegramLog rows
    reservations,   \* committed Reservation rows
    resItems,       \* committed ReservationItem rows
    req,            \* per client: the booking request in flight (view position, transaction buffer)
    resp,           \* per client: the response of the client's last booking request
    coupons,        \* DeliveryCoupon table: pk -> row
    loyalty,        \* LoyaltyProgram row (or NoProgram)
    sessions,       \* session store: session -> delivery keys of request.session
    orders,         \* DeliveryOrder table, in order of creation (id = index)
    orderItems,     \* DeliveryOrderItem rows
    summary,        \* session -> body of its last cart-summary response
    po              \* per session: the delivery_place_order request in flight

bookingVars == <<reservations, resItems, req, resp>>
deliveryVars == <<coupons, loyalty, sessions, orders, orderItems, summary, po>>
vars == <<now, menu, promotions, pricing, edit, telegram, reservations, resItems, req, resp,
          coupons, loyalty, sessions, orders, orderItems, summary, po>>

----------------------------------------------------------------------------
(* Helpers *)

Max2(a, b) == IF a >= b THEN a ELSE b

CeilDiv(a, b) == (a + b - 1) \div b

RECURSIVE SumField(_, _)
SumField(S, fld) ==
    IF S = {} THEN 0
    ELSE LET r == CHOOSE x \in S : TRUE
         IN r[fld] + SumField(S \ {r}, fld)

\* A fresh primary key: the smallest id no row of S carries.
FreshId(S) == CHOOSE i \in 1..(Cardinality(S) + 1) :
                 /\ i \notin {r.id : r \in S}
                 /\ \A j \in 1..(i - 1) : j \in {r.id : r \in S}

----------------------------------------------------------------------------
(* Reservation: constants and pure rules *)

TABLES_TOTAL == 14
CHAIRS_TOTAL == 55
BABY_SEATS_TOTAL == 2

Clients == {"a", "b"}

NoTime == -1
NoError == [field |-> "", reason |-> ""]
NoResp == [kind |-> "none", field |-> "", reason |-> "", rid |-> 0]
IdleReq == [pc |-> "idle", start |-> NoTime, party_size |-> 0, baby_seats |-> 0,
            pre |-> <<>>, rid |-> 0, rows |-> {}]

Second(dt) == dt % 60
Minute(dt) == (dt \div 60) % 60
Hour(dt) == (dt \div 3600) % 24

compute_tables_needed_Floor(party_size) ==
    IF party_size <= 0 THEN 1 ELSE Max2(1, party_size \div 4)

compute_tables_needed(party_size) ==
    IF party_size <= 0 THEN 1 ELSE Max2(1, CeilDiv(party_size, 4))

\* ReservationForm.clean: combine date and time, drop the seconds, then the
\* interval, opening-hours and future checks in the order of the code.
ReservationForm_clean_OpenLate(d, t, sec, nw) ==
    LET naive_dt == d * 86400 + t * 60 + sec
        aware_dt == naive_dt - Second(naive_dt)
    IN  IF Minute(aware_dt) \notin {0, 30}
        THEN [ok |-> FALSE, reason |-> "interval", start |-> NoTime]
        ELSE IF Hour(aware_dt) < 10
        THEN [ok |-> FALSE, reason |-> "opening", start |-> NoTime]
        ELSE IF Hour(aware_dt) > 22
        THEN [ok |-> FALSE, reason |-> "last_start", start |-> NoTime]
        ELSE IF aware_dt < nw
        THEN [ok |-> FALSE, reason |-> "past", start |-> NoTime]
        ELSE [ok |-> TRUE, reason |-> "", start |-> aware_dt]

ReservationForm_clean(d, t, sec, nw) ==
    LET naive_dt == d * 86400 + t * 60 + sec
        aware_dt == naive_dt - Second(naive_dt)
    IN  IF Minute(aware_dt) \notin {0, 30}
        THEN [ok |-> FALSE, reason |-> "interval", start |-> NoTime]
        ELSE IF Hour(aware_dt) < 10
        THEN [ok |-> FALSE, reason |-> "opening", start |-> NoTime]
        ELSE IF Hour(aware_dt) > 21 \/ (Hour(aware_dt) = 21 /\ Minute(aware_dt) > 30)
        THEN [ok |-> FALSE, reason |-> "last_start", start |-> NoTime]
        ELSE IF aware_dt < nw
        THEN [ok |-> FALSE, reason |-> "past", start |-> NoTime]
        ELSE [ok |-> TRUE, reason |-> "", start |-> aware_dt]

\* The capacity part of Reservation.clean: aggregate the rows of the slot,
\* whatever their status, and compare with the three totals.
CapacityNoAggregate(start, party_size, baby_seats, rows) ==
    IF party_size > CHAIRS_TOTAL
    THEN [field |-> "party_size", reason |-> "seats"]
    ELSE IF baby_seats > BABY_SEATS_TOTAL
    THEN [field |-> "baby_seats", reason |-> "baby_seats"]
    ELSE IF compute_tables_needed(party_size) > TABLES_TOTAL
    THEN [field |-> "party_size", reason |-> "tables"]
    ELSE NoError

CapacityActiveOnly(start, party_size, baby_seats, rows) ==
    LET qs == {r \in rows : r.start_datetime = start
                            /\ r.status \notin {"cancelled", "completed"}}
        chairs_used == SumField(qs, "party_size")
        babies_used == SumField(qs, "baby_seats")
        tables_used == SumField(qs, "tables_needed")
    IN  IF chairs_used + party_size > CHAIRS_TOTAL
        THEN [field |-> "party_size", reason |-> "seats"]
        ELSE IF babies_used + baby_seats > BABY_SEATS_TOTAL
        THEN [field |-> "baby_seats", reason |-> "baby_seats"]
        ELSE IF tables_used + compute_tables_needed(party_size) > TABLES_TOTAL
        THEN [field |-> "party_size", reason |-> "tables"]
        ELSE NoError

CapacityError(start, party_size, baby_seats, rows) ==
    LET qs == {r \in rows : r.start_datetime = start}
        chairs_used == SumField(qs, "party_size")
        babies_used == SumField(qs, "baby_seats")
        tables_used == SumField(qs, "tables_needed")
    IN  IF chairs_used + party_size > CHAIRS_TOTAL
        THEN [field |-> "party_size", reason |-> "seats"]
        ELSE IF babies_used + baby_seats > BABY_SEATS_TOTAL
        THEN [field |-> "baby_seats", reason |-> "baby_seats"]
        ELSE IF tables_used + compute_tables_needed(party_size) > TABLES_TOTAL
        THEN [field |-> "party_size", reason |-> "tables"]
        ELSE NoError

\* Reservation.clean, as run by obj.full_clean() in ReservationForm.save.
Reservation_clean(start, party_size, baby_seats, rows, nw) ==
    IF start # NoTime /\ start < nw
    THEN [field |-> "start_datetime", reason |-> "past"]
    ELSE IF start # NoTime /\ (Minute(start) \notin {0, 30} \/ Second(start) # 0)
    THEN [field |-> "start_datetime", reason |-> "interval"]
    ELSE IF start # NoTime
    THEN CapacityError(start, party_size, baby_seats, rows)
    ELSE NoError

\* The pre-order loop of the reservation view: lines with qty <= 0 and lines
\* whose item is missing or hidden are skipped; the price is snapshotted.
RECURSIVE PreorderBulk(_, _, _)
PreorderBulk(rid, pre, mn) ==
    IF pre = <<>> THEN <<>>
    ELSE LET ln == Head(pre)
             rest == PreorderBulk(rid, Tail(pre), mn)
         IN  IF ln.qty <= 0 \/ ln.id \notin DOMAIN mn \/ mn[ln.id].status = "hidden"
             THEN rest
             ELSE <<[reservation |-> rid, menu_item |-> ln.id, qty |-> ln.qty,
                     unit_price |-> mn[ln.id].price]>> \o rest

SeqToSet(s) == {s[i] : i \in DOMAIN s}

\* unique_together (reservation, menu_item): bulk_create raises IntegrityError
\* when two lines name the same item.
BulkViolatesUnique(bulk) ==
    \E i, j \in DOMAIN bulk : i < j /\ bulk[i].menu_item = bulk[j].menu_item

NewReservation(rid, start, party_size, baby_seats) ==
    [id |-> rid, start_datetime |-> start, party_size |-> party_size,
     baby_seats |-> baby_seats, tables_needed |-> compute_tables_needed(party_size),
     status |-> "pending"]

FormError(reason) == [kind |-> "form_error", field |-> "__all__", reason |-> reason, rid |-> 0]
ServerError(err) == [kind |-> "server_error", field |-> err.field, reason |-> err.reason, rid |-> 0]
Placed(rid) == [kind |-> "ok", field |-> "", reason |-> "", rid |-> rid]

\* r.save() inside transaction.atomic(): the row is written in the request's
\* transaction and is not visible to other requests before the commit.
SaveAutocommit(committed, buffer, row) ==
    [committed |-> committed \cup {row}, buffer |-> buffer]

SaveInTransaction(committed, buffer, row) ==
    [committed |-> committed, buffer |-> buffer \cup {row}]

----------------------------------------------------------------------------
(* Delivery: coupons, cart totals (pure rules) *)

None == -1                  \* a null column / a missing session key
NoUser == "none"            \* assigned_user IS NULL
Anonymous == "anon"         \* request.user of a session that is not logged in
NoProgram == [exists |-> FALSE, is_active |-> FALSE, target_orders |-> 0, reward_percent |-> 0]

\* Python's "x or y" on numbers and None.
Or(x, y) == IF x = None \/ x = 0 THEN y ELSE x

\* DeliveryCoupon.is_current
is_current_OffByOne(c, nw) ==
    IF ~c.is_active THEN FALSE
    ELSE IF c.start_at # None /\ nw < c.start_at THEN FALSE
    ELSE IF c.end_at # None /\ nw > c.end_at THEN FALSE
    ELSE IF c.max_uses # None /\ c.used_count > c.max_uses THEN FALSE
    ELSE TRUE

is_current(c, nw) ==
    IF ~c.is_active THEN FALSE
    ELSE IF c.start_at # None /\ nw < c.start_at THEN FALSE
    ELSE IF c.end_at # None /\ nw > c.end_at THEN FALSE
    ELSE IF c.max_uses # None /\ c.used_count >= c.max_uses THEN FALSE
    ELSE TRUE

\* DeliveryCoupon.compute_discount: every type other than "fixed" takes the
\* percent branch. Amounts are cents; the menu prices and percentages drawn
\* here make subtotal * value / 100 a whole number of cents.
compute_discount_NoClamp(c, subtotal) ==
    IF subtotal < c.min_subtotal THEN 0
    ELSE IF c.discount_type = "fixed" THEN c.discount_value
    ELSE (subtotal * c.discount_value) \div 100

compute_discount(c, subtotal) ==
    IF subtotal < c.min_subtotal THEN 0
    ELSE LET val == c.discount_value
             disc == IF c.discount_type = "fixed" THEN val
                     ELSE (subtotal * val) \div 100
         IN  IF disc < 0 THEN 0
             ELSE IF disc > subtotal THEN subtotal
             ELSE disc

\* DeliveryCoupon.grants_free_delivery (spec 4.4: gated on subtotal >= min_subtotal)
grants_free_delivery_NoMinimum(c, subtotal) ==
    c.discount_type = "free_delivery"

grants_free_delivery(c, subtotal) ==
    c.discount_type = "free_delivery" /\ subtotal >= c.min_subtotal

\* code__iexact: codes are compared case-insensitively.
Upper(code) ==
    CASE code = "fix10" -> "FIX10"
      [] code = "free" -> "FREE"
      [] OTHER -> code

\* filter(code__iexact=code).first() under Meta.ordering (-is_active, -created_at):
\* pk of the coupon found, 0 for none.
FirstCoupon(hits, act) ==
    IF hits = {} THEN 0
    ELSE IF act # {} THEN CHOOSE k \in act : \A j \in act : j <= k
    ELSE CHOOSE k \in hits : \A j \in hits : j <= k

LookupCoupon(code) ==
    FirstCoupon({k \in DOMAIN coupons : Upper(coupons[k].code) = Upper(code)},
                {k \in DOMAIN coupons : /\ Upper(coupons[k].code) = Upper(code)
                                        /\ coupons[k].is_active})

\* The body of _get_coupon_from_session on the session's code, the coupon k
\* found for it and the requester: pk of the coupon the request may use, 0 for
\* none.
CouponOfRequestNoOwnerCheck(code, k, user) ==
    IF code = "" THEN 0
    ELSE IF k = 0 THEN 0
    ELSE IF ~is_current(coupons[k], now) THEN 0
    ELSE k

CouponOfRequest(code, k, user) ==
    IF code = "" THEN 0
    ELSE IF k = 0 THEN 0
    ELSE IF ~is_current(coupons[k], now) THEN 0
    ELSE IF coupons[k].is_personal /\ user = Anonymous THEN 0
    ELSE IF coupons[k].is_personal /\ coupons[k].assigned_user # NoUser
            /\ coupons[k].assigned_user # user THEN 0
    ELSE k

_get_coupon_from_session_MinSubtotal(s) ==
    LET k == CouponOfRequest(sessions[s].coupon_code, LookupCoupon(sessions[s].coupon_code),
                             sessions[s].user)
        cart == sessions[s].cart
        sub == SumField({[id |-> i, v |-> menu[i].price * cart[i]] :
                            i \in {j \in DOMAIN cart : j \in DOMAIN menu
                                                       /\ menu[j].status # "hidden"}}, "v")
    IN  IF k # 0 /\ sub < coupons[k].min_subtotal THEN 0 ELSE k

_get_coupon_from_session(s) ==
    CouponOfRequest(sessions[s].coupon_code, LookupCoupon(sessions[s].coupon_code),
                    sessions[s].user)

NoCouponInfo == [active |-> FALSE, code |-> "", free_delivery |-> FALSE]
CouponInfo(k, free) == [active |-> TRUE, code |-> coupons[k].code, free_delivery |-> free]

\* The body of _coupon_discount_for_request for the coupon k of the request.
CouponDiscount(k, subtotal, disc) ==
    IF k = 0 THEN [discount |-> 0, info |-> NoCouponInfo]
    ELSE IF coupons[k].discount_type = "free_delivery"
    THEN [discount |-> 0, info |-> CouponInfo(k, grants_free_delivery(coupons[k], subtotal))]
    ELSE IF subtotal <= 0 THEN [discount |-> 0, info |-> CouponInfo(k, FALSE)]
    ELSE IF disc <= 0 THEN [discount |-> 0, info |-> NoCouponInfo]
    ELSE [discount |-> disc, info |-> CouponInfo(k, FALSE)]

CouponDiscountOf(k, subtotal) ==
    CouponDiscount(k, subtotal, IF k = 0 THEN 0 ELSE compute_discount(coupons[k], subtotal))

_coupon_discount_for_request(s, subtotal) ==
    CouponDiscountOf(_get_coupon_from_session(s), subtotal)

\* The priced lines of the cart: entries with qty > 0 whose item exists and is
\* not hidden, at the live menu price.
CartLinesWithHidden(cart) ==
    {[id |-> i, name |-> menu[i].name, qty |-> cart[i], unit_price |-> menu[i].price,
      line_total |-> menu[i].price * cart[i]] :
        i \in {j \in DOMAIN cart : cart[j] > 0 /\ j \in DOMAIN menu}}

CartLines(cart) ==
    {[id |-> i, name |-> menu[i].name, qty |-> cart[i], unit_price |-> menu[i].price,
      line_total |-> menu[i].price * cart[i]] :
        i \in {j \in DOMAIN cart : cart[j] > 0 /\ j \in DOMAIN menu
                                   /\ menu[j].status # "hidden"}}

\* The dictionary _cart_totals returns.
TotalsRecord(lines, subtotal, count, fee, discount, info) ==
    [subtotal |-> subtotal, delivery_fee |-> fee, coupon_discount |-> discount,
     coupon |-> info, total |-> Max2(0, subtotal - discount) + fee,
     count |-> count, lines |-> lines,
     delivery_fee_waived |-> info.free_delivery]

\* _cart_totals after the line loop: the coupon discount, the fee waiver of a
\* free-delivery coupon and the zeroing of an empty cart.
TotalsWithCouponNoZeroing(lines, subtotal, count, fee, k, cd) ==
    IF k # 0 /\ coupons[k].discount_type = "free_delivery"
    THEN TotalsRecord(lines, subtotal, count,
                      IF grants_free_delivery(coupons[k], subtotal) THEN 0 ELSE fee,
                      cd.discount,
                      [cd.info EXCEPT !.free_delivery =
                                         grants_free_delivery(coupons[k], subtotal)])
    ELSE TotalsRecord(lines, subtotal, count, fee, cd.discount, cd.info)

TotalsWithCoupon(lines, subtotal, count, fee, k, cd) ==
    IF count <= 0
    THEN TotalsRecord(lines, 0, count, 0, 0,
                      IF k # 0 THEN CouponInfo(k, FALSE) ELSE NoCouponInfo)
    ELSE IF k # 0 /\ coupons[k].discount_type = "free_delivery"
    THEN TotalsRecord(lines, subtotal, count,
                      IF grants_free_delivery(coupons[k], subtotal) THEN 0 ELSE fee,
                      cd.discount,
                      [cd.info EXCEPT !.free_delivery =
                                         grants_free_delivery(coupons[k], subtotal)])
    ELSE TotalsRecord(lines, subtotal, count, fee, cd.discount, cd.info)

TotalsOfLines(lines, subtotal, count, fee, k) ==
    TotalsWithCoupon(lines, subtotal, count, fee, k, CouponDiscountOf(k, subtotal))

TotalsOf(lines, fee, k) ==
    TotalsOfLines(lines, SumField(lines, "line_total"), SumField(lines, "qty"), fee, k)

\* _cart_totals
_cart_totals(s) ==
    TotalsOf(CartLines(sessions[s].cart), Or(sessions[s].delivery_fee, 0),
             _get_coupon_from_session(s))

\* delivery_fee_for_distance with the fallback policy (no DeliveryPricing row):
\* distance in 1/100 km, fee in cents, quantized to the cent (half even).
BASE_KM == 200
BASE_FEE == 0
PER_KM_FEE == 99
MAX_FEE == 899

RoundHalfEven(n, unit) ==
    LET q == n \div unit
        r == n % unit
    IN  IF 2 * r < unit THEN q
        ELSE IF 2 * r > unit THEN q + 1
        ELSE IF q % 2 = 0 THEN q ELSE q + 1

\* filter(is_active=True).order_by("-updated_at").first(): pk of the active
\* pricing row updated last, 0 for none.
NewestActivePricing(act) ==
    IF act = {} THEN 0
    ELSE CHOOSE k \in act : \A j \in act : pricing[j].updated_at <= pricing[k].updated_at

\* The policy in force: the row found, else the fallback values.
PolicyOf(k) ==
    IF k = 0
    THEN [base_km |-> BASE_KM, base_fee |-> BASE_FEE,
          per_km_fee |-> PER_KM_FEE, max_fee |-> MAX_FEE]
    ELSE [base_km |-> pricing[k].base_km, base_fee |-> pricing[k].base_fee,
          per_km_fee |-> pricing[k].per_km_fee, max_fee |-> pricing[k].max_fee]

\* The fee in hundredths of a cent before the cap.
FeeBeforeCap(d, p) ==
    IF d <= p.base_km THEN p.base_fee * 100
    ELSE p.base_fee * 100 + (d - p.base_km) * p.per_km_fee

FeeNoCap(d, p) == RoundHalfEven(FeeBeforeCap(d, p), 100)

FeeOfPolicy(d, p) ==
    RoundHalfEven(IF FeeBeforeCap(d, p) > p.max_fee * 100 THEN p.max_fee * 100
                  ELSE FeeBeforeCap(d, p), 100)

delivery_fee_for_distance(d) ==
    IF d <= 0 THEN 0
    ELSE FeeOfPolicy(d, PolicyOf(NewestActivePricing({k \in DOMAIN pricing : pricing[k].is_active})))

\* DeliveryPromotion.is_current
Promotion_is_current(p, nw) ==
    IF ~p.is_active THEN FALSE
    ELSE IF p.start_at # None /\ nw < p.start_at THEN FALSE
    ELSE IF p.end_at # None /\ nw > p.end_at THEN FALSE
    ELSE TRUE

\* filter(is_active=True).order_by("-created_at").first(): pk of the most
\* recently created active promotion, 0 for none.
NewestActivePromo(act) ==
    IF act = {} THEN 0
    ELSE CHOOSE k \in act : \A j \in act : promotions[j].created_at <= promotions[k].created_at

\* _active_promo: the newest active promotion when it is current, else none.
ActivePromoOf(k) ==
    IF k # 0 /\ Promotion_is_current(promotions[k], now) THEN k ELSE 0

_active_promo ==
    ActivePromoOf(NewestActivePromo({k \in DOMAIN promotions : promotions[k].is_active}))

NoPromoInfo == [active |-> FALSE, free_delivery |-> FALSE, min_subtotal |-> 0]

\* _apply_promo_delivery_fee: the fee is returned unchanged whatever the
\* promotion says; the information reports free_delivery as false.
ApplyPromo(fee, subtotal, promo) ==
    IF promo = 0 THEN [fee |-> fee, info |-> NoPromoInfo]
    ELSE [fee |-> fee,
          info |-> [active |-> TRUE, free_delivery |-> FALSE,
                    min_subtotal |-> Or(promotions[promo].min_subtotal, 0)]]

_apply_promo_delivery_fee(fee, subtotal) == ApplyPromo(fee, subtotal, _active_promo)

\* _normalize_fi_phone on a phone number given as a sequence of characters.
Digits == {"0", "1", "2", "3", "4", "5", "6", "7", "8", "9"}

RECURSIVE DropChars(_, _)
DropChars(str, drop) ==
    IF str = <<>> THEN <<>>
    ELSE IF Head(str) \in drop THEN DropChars(Tail(str), drop)
    ELSE <<Head(str)>> \o DropChars(Tail(str), drop)

StartsWith(str, pre) ==
    Len(str) >= Len(pre) /\ SubSeq(str, 1, Len(pre)) = pre

_normalize_fi_phone(raw) ==
    LET str == DropChars(raw, {"(", ")", " ", "-"})
        body == IF str # <<>> /\ Head(str) = "+" THEN Tail(str) ELSE str
        wellFormed == body # <<>> /\ \A i \in DOMAIN body : body[i] \in Digits
    IN  IF str = <<>> \/ ~wellFormed THEN <<>>
        ELSE IF StartsWith(str, <<"+", "3", "5", "8">>)
                /\ Len(str) - 4 >= 6 /\ Len(str) - 4 <= 12 THEN str
        ELSE IF StartsWith(str, <<"3", "5", "8">>)
                /\ Len(str) - 3 >= 6 /\ Len(str) - 3 <= 12 THEN str
        ELSE <<>>

\* _month_bounds / _issued_month_str on the calendar of a non-leap year whose
\* 1 January is day 0: the months are numbered 1, 2, ...
MonthStartDay == <<0, 31, 59, 90, 120>>
MonthOf(t) == Cardinality({m \in DOMAIN MonthStartDay : MonthStartDay[m] * 86400 <= t})
_month_bounds(t) == [start |-> MonthStartDay[MonthOf(t)] * 86400,
                     end |-> MonthStartDay[MonthOf(t) + 1] * 86400]
_issued_month_str(t) == MonthOf(t)

\* _loyalty_config
_loyalty_config ==
    IF ~loyalty.exists \/ ~loyalty.is_active
    THEN [enabled |-> FALSE, target |-> 10, percent |-> 30]
    ELSE [enabled |-> TRUE, target |-> Or(loyalty.target_orders, 10),
          percent |-> Or(loyalty.reward_percent, 30)]

\* _loyalty_delivered_count on an orders table
_loyalty_delivered_count_AnyMonth(u, ords) ==
    IF u = Anonymous \/ u = NoUser THEN 0
    ELSE Cardinality({i \in DOMAIN ords : ords[i].user = u /\ ords[i].status = "delivered"})

_loyalty_delivered_count(u, ords) ==
    IF u = Anonymous \/ u = NoUser THEN 0
    ELSE LET b == _month_bounds(now)
         IN  Cardinality({i \in DOMAIN ords :
                 /\ ords[i].user = u
                 /\ ords[i].status = "delivered"
                 /\ ords[i].created_at >= b.start
                 /\ ords[i].created_at < b.end})

\* The codes secrets.token_hex draws for loyalty coupons, in the order used.
LoyalCodes == <<"LOYAL30-A", "LOYAL30-B", "LOYAL30-C", "LOYAL30-D",
               "LOYAL30-E", "LOYAL30-F", "LOYAL30-G", "LOYAL30-H">>
MaxLoyalCoupons == 2

LoyalCouponsOf(cps) == {k \in DOMAIN cps : cps[k].is_personal}
CanIssue(cps) == Cardinality(LoyalCouponsOf(cps)) < MaxLoyalCoupons

\* The coupon row _ensure_loyalty_coupon_for_user creates.
NewLoyaltyCoupon(u, cps, percent) ==
    [code |-> LoyalCodes[Cardinality(LoyalCouponsOf(cps)) + 1],
     is_active |-> TRUE, discount_type |-> "percent",
     discount_value |-> percent, min_subtotal |-> 0,
     start_at |-> _month_bounds(now).start, end_at |-> _month_bounds(now).end,
     max_uses |-> 1, used_count |-> 0,
     is_personal |-> TRUE, assigned_user |-> u,
     issued_month |-> _issued_month_str(now)]

\* _ensure_loyalty_coupon_for_user: the coupons table after the call, given the
\* orders table it counts on.
EnsureAlwaysCreates(u, cps, ords) ==
    IF u = Anonymous \/ u = NoUser THEN cps
    ELSE IF ~_loyalty_config.enabled THEN cps
    ELSE IF _loyalty_delivered_count(u, ords) < _loyalty_config.target THEN cps
    ELSE cps @@ ((Cardinality(DOMAIN cps) + 1) :> NewLoyaltyCoupon(u, cps, _loyalty_config.percent))

_ensure_loyalty_coupon_for_user(u, cps, ords) ==
    LET cfg == _loyalty_config
        month_key == _issued_month_str(now)
        existing == {k \in DOMAIN cps :
                        /\ cps[k].is_active /\ cps[k].is_personal
                        /\ cps[k].assigned_user = u
                        /\ cps[k].issued_month = month_key
                        /\ cps[k].discount_type = "percent"
                        /\ cps[k].discount_value = cfg.percent}
        first == CHOOSE k \in existing : \A j \in existing : j <= k
        pk == Cardinality(DOMAIN cps) + 1
    IN  IF u = Anonymous \/ u = NoUser THEN cps
        ELSE IF ~cfg.enabled THEN cps
        ELSE IF _loyalty_delivered_count(u, ords) < cfg.target THEN cps
        ELSE IF existing # {} /\ is_current(cps[first], now) THEN cps
        ELSE cps @@ (pk :> NewLoyaltyCoupon(u, cps, cfg.percent))

\* The value _ensure_loyalty_coupon_for_user returns: pk of the coupon, 0 for
\* None.
EnsuredCoupon(u, cps, ords) ==
    LET cfg == _loyalty_config
        existing == {k \in DOMAIN cps :
                        /\ cps[k].is_active /\ cps[k].is_personal
                        /\ cps[k].assigned_user = u
                        /\ cps[k].issued_month = _issued_month_str(now)
                        /\ cps[k].discount_type = "percent"
                        /\ cps[k].discount_value = cfg.percent}
        first == CHOOSE k \in existing : \A j \in existing : j <= k
    IN  IF u = Anonymous \/ u = NoUser THEN 0
        ELSE IF ~cfg.enabled THEN 0
        ELSE IF _loyalty_delivered_count(u, ords) < cfg.target THEN 0
        ELSE IF existing # {} /\ is_current(cps[first], now) THEN first
        ELSE Cardinality(DOMAIN cps) + 1

\* No delivery_coupon_edit request is being processed.
IdleEdit == [pc |-> "idle", pk |-> 0, obj |-> <<>>]

----------------------------------------------------------------------------
(* The Telegram notification *)

\* What the collaborator does with a sendMessage call: it delivers, the
\* settings lack the token or chat id, the call times out, the API answers
\* with an HTTP error or with ok = false, or the group was upgraded and the
\* API answers 400 with migrate_to_chat_id for the configured chat id.
TelegramOutcomes == {"ok", "no_config", "timeout", "http_error", "api_error", "migrated"}

TelegramUp == [outcome |-> "ok", chat_id |-> "configured", log |-> <<>>]

\* _send_once: the exception it raises, "" when the message was sent.
_send_once(tg, chat_id) ==
    CASE tg.outcome = "no_config" -> "ValueError"
      [] tg.outcome = "timeout" -> "URLError"
      [] tg.outcome = "http_error" -> "HTTPError"
      [] tg.outcome = "migrated" /\ chat_id # "migrated" -> "HTTPError"
      [] tg.outcome = "api_error" -> "RuntimeError"
      [] OTHER -> ""

\* send_telegram_message: the exception that leaves it ("" for none) and the
\* collaborator state with the chat id it remembered.
SendRetry(tg, exc) ==
    IF exc # "HTTPError" THEN [exc |-> exc, tg |-> tg]
    ELSE IF tg.outcome = "migrated"
    THEN [exc |-> _send_once(tg, "migrated"), tg |-> [tg EXCEPT !.chat_id = "migrated"]]
    ELSE [exc |-> "RuntimeError", tg |-> tg]

send_telegram_message(tg) ==
    IF tg.outcome = "no_config" THEN [exc |-> "ValueError", tg |-> tg]
    ELSE SendRetry(tg, _send_once(tg, tg.chat_id))

\* The try/except around the notification in the reservation and
\* delivery_place_order views: every Exception is caught and logged as a
\* TelegramLog row; raised tells whether an exception leaves the block.
NotifyCaught(sent, kind) ==
    [raised |-> FALSE,
     telegram |-> IF sent.exc = "" THEN sent.tg
                  ELSE [sent.tg EXCEPT !.log = Append(@, [ok |-> FALSE, kind |-> kind,
                                                         response_text |-> sent.exc])]]

telegram_notify_Unguarded(tg, kind) ==
    [raised |-> send_telegram_message(tg).exc # "", telegram |-> send_telegram_message(tg).tg]

telegram_notify(tg, kind) ==
    NotifyCaught(send_telegram_message(tg), kind)

\* The collaborator stops working in one of the ways above.
telegram_breaks(o) ==
    /\ telegram.outcome = "ok"
    /\ o # "ok"
    /\ telegram' = [telegram EXCEPT !.outcome = o]
    /\ UNCHANGED <<now, menu, promotions, pricing, edit>>
    /\ UNCHANGED bookingVars
    /\ UNCHANGED deliveryVars

----------------------------------------------------------------------------
(* Initial state *)

MenuInit == (1 :> [name |-> "soup", price |-> 500, status |-> "active"])
         @@ (2 :> [name |-> "pizza", price |-> 1000, status |-> "active"])
         @@ (3 :> [name |-> "special", price |-> 700, status |-> "hidden"])

InitBooking ==
    /\ now = 0
    /\ menu = MenuInit
    /\ promotions = <<>>
    /\ pricing = <<>>
    /\ edit = IdleEdit
    /\ telegram = TelegramUp
    /\ reservations = {}
    /\ resItems = {}
    /\ req = [p \in Clients |-> IdleReq]
    /\ resp = [p \in Clients |-> NoResp]
    /\ coupons = <<>>
    /\ loyalty = NoProgram
    /\ sessions = [s \in {} |-> 0]
    /\ orders = <<>>
    /\ orderItems = {}
    /\ summary = [s \in {} |-> 0]
    /\ po = [s \in {} |-> 0]

----------------------------------------------------------------------------
(* The reservation view, POST branch *)

\* One whole booking request, processed with no other request in flight.
reservation(p, d, t, sec, party_size, baby_seats, pre) ==
    LET form == ReservationForm_clean(d, t, sec, now)
        err == Reservation_clean(form.start, party_size, baby_seats, reservations, now)
        rid == FreshId(reservations)
        bulk == PreorderBulk(rid, pre, menu)
    IN  /\ \A q \in Clients : req[q].pc = "idle"
        /\ IF ~form.ok
           THEN /\ resp' = [resp EXCEPT ![p] = FormError(form.reason)]
                /\ UNCHANGED <<reservations, resItems, telegram>>
           ELSE IF err # NoError
           THEN /\ resp' = [resp EXCEPT ![p] = ServerError(err)]
                /\ UNCHANGED <<reservations, resItems, telegram>>
           ELSE IF BulkViolatesUnique(bulk)
           THEN /\ resp' = [resp EXCEPT ![p] =
                               ServerError([field |-> "menu_item", reason |-> "integrity"])]
                /\ UNCHANGED <<reservations, resItems, telegram>>
           ELSE /\ reservations' = reservations \cup
                       {NewReservation(rid, form.start, party_size, baby_seats)}
                /\ resItems' = resItems \cup SeqToSet(bulk)
                /\ telegram' = telegram_notify(telegram, "reservation").telegram
                /\ resp' = [resp EXCEPT ![p] =
                               IF telegram_notify(telegram, "reservation").raised
                               THEN ServerError([field |-> "telegram", reason |-> "exception"])
                               ELSE Placed(rid)]
        /\ UNCHANGED <<now, menu, promotions, pricing, edit, summary, req>>
        /\ UNCHANGED deliveryVars

\* The same request in the steps at which other requests can interleave.
\* Step 1: form.is_valid(); a valid form enters transaction.atomic().
reservation_is_valid(p, d, t, sec, party_size, baby_seats, pre) ==
    LET form == ReservationForm_clean(d, t, sec, now)
    IN  /\ req[p].pc = "idle"
        /\ IF ~form.ok
           THEN /\ resp' = [resp EXCEPT ![p] = FormError(form.reason)]
                /\ UNCHANGED req
           ELSE /\ req' = [req EXCEPT ![p] =
                              [pc |-> "atomic", start |-> form.start,
                               party_size |-> party_size, baby_seats |-> baby_seats,
                               pre |-> pre, rid |-> 0, rows |-> {}]]
                /\ resp' = [resp EXCEPT ![p] = NoResp]
        /\ UNCHANGED <<now, menu, promotions, pricing, edit, telegram, summary, reservations, resItems>>
        /\ UNCHANGED deliveryVars

\* Step 2: form.save(commit=False) runs obj.full_clean(): the aggregate is read
\* here; a ValidationError leaves the view uncaught and rolls the block back.
reservation_full_clean(p) ==
    LET r == req[p]
        err == Reservation_clean(r.start, r.party_size, r.baby_seats, reservations, now)
    IN  /\ r.pc = "atomic"
        /\ IF err # NoError
           THEN /\ resp' = [resp EXCEPT ![p] = ServerError(err)]
                /\ req' = [req EXCEPT ![p] = IdleReq]
           ELSE /\ req' = [req EXCEPT ![p].pc = "cleaned"]
                /\ UNCHANGED resp
        /\ UNCHANGED <<now, menu, promotions, pricing, edit, telegram, summary, reservations, resItems>>
        /\ UNCHANGED deliveryVars

\* Step 3: r.save().
reservation_save(p) ==
    LET r == req[p]
        rid == FreshId(reservations \cup UNION {req[q].rows : q \in Clients})
        w == SaveInTransaction(reservations, r.rows,
                               NewReservation(rid, r.start, r.party_size, r.baby_seats))
    IN  /\ r.pc = "cleaned"
        /\ reservations' = w.committed
        /\ req' = [req EXCEPT ![p].pc = "saved", ![p].rid = rid, ![p].rows = w.buffer]
        /\ UNCHANGED <<now, menu, promotions, pricing, edit, telegram, summary, resItems, resp>>
        /\ UNCHANGED deliveryVars

\* Step 4: the pre-order loop, bulk_create and the end of the atomic block.
reservation_items_commit(p) ==
    LET r == req[p]
        rid == r.rid
        bulk == PreorderBulk(rid, r.pre, menu)
    IN  /\ r.pc = "saved"
        /\ IF BulkViolatesUnique(bulk)
           THEN /\ resp' = [resp EXCEPT ![p] =
                               ServerError([field |-> "menu_item", reason |-> "integrity"])]
                /\ UNCHANGED <<reservations, resItems, telegram>>
           ELSE /\ reservations' = reservations \cup r.rows
                /\ resItems' = resItems \cup SeqToSet(bulk)
                /\ telegram' = telegram_notify(telegram, "reservation").telegram
                /\ resp' = [resp EXCEPT ![p] =
                               IF telegram_notify(telegram, "reservation").raised
                               THEN ServerError([field |-> "telegram", reason |-> "exception"])
                               ELSE Placed(rid)]
        /\ req' = [req EXCEPT ![p] = IdleReq]
        /\ UNCHANGED <<now, menu, promotions, pricing, edit>>
        /\ UNCHANGED deliveryVars

ReservationStatuses == {"pending", "confirmed", "cancelled", "completed"}

\* reservation_update_status (POST, staff)
reservation_update_status(pk, new_status) ==
    /\ \E r \in reservations : r.id = pk
    /\ reservations' = IF new_status \in ReservationStatuses
                       THEN {IF r.id = pk THEN [r EXCEPT !.status = new_status] ELSE r :
                                r \in reservations}
                       ELSE reservations
    /\ UNCHANGED <<now, menu, promotions, pricing, edit, telegram, resItems, req, resp>>
    /\ UNCHANGED deliveryVars

\* reservations_bulk_update (POST, staff)
reservations_bulk_update(ids, new_status) ==
    /\ reservations' = IF new_status \in ReservationStatuses /\ ids # {}
                       THEN {IF r.id \in ids THEN [r EXCEPT !.status = new_status] ELSE r :
                                r \in reservations}
                       ELSE reservations
    /\ UNCHANGED <<now, menu, promotions, pricing, edit, telegram, resItems, req, resp>>
    /\ UNCHANGED deliveryVars

\* reservations_bulk_delete (POST, staff): the selected rows are deleted, their
\* items with them (on_delete = CASCADE).
reservations_bulk_delete(ids) ==
    /\ reservations' = IF ids # {} THEN {r \in reservations : r.id \notin ids}
                       ELSE reservations
    /\ resItems' = IF ids # {} THEN {it \in resItems : it.reservation \notin ids}
                   ELSE resItems
    /\ UNCHANGED <<now, menu, promotions, pricing, edit, telegram, req, resp>>
    /\ UNCHANGED deliveryVars

TickSeconds == 10 * 3600
MaxTicks == 2

Tick ==
    /\ now < MaxTicks * TickSeconds
    /\ now' = now + TickSeconds
    /\ UNCHANGED <<menu, promotions, pricing, edit, telegram, reservations, resItems, req, resp>>
    /\ UNCHANGED deliveryVars

\* The clock reaching the first instant of the next calendar month.
MaxMonths == 2

NextMonth ==
    /\ MonthOf(now) < MaxMonths
    /\ now' = MonthStartDay[MonthOf(now) + 1] * 86400
    /\ UNCHANGED <<menu, promotions, pricing, edit, telegram, reservations, resItems, req, resp>>
    /\ UNCHANGED deliveryVars

----------------------------------------------------------------------------
(* Delivery: session and order operations *)

Sessions == {"s1", "s2"}

\* The cart as _cart_get reads it: item id -> qty. A session without the
\* delivery_cart key reads as the empty cart, which _cart_get then stores.
EmptyCart == <<>>
NewSession(u) ==
    [user |-> u, cart |-> EmptyCart, coupon_code |-> "",
     delivery_lat |-> None, delivery_lng |-> None,
     delivery_distance_km |-> None, delivery_fee |-> None,
     delivery_promo |-> NoPromoInfo,
     customer_name |-> "", customer_phone |-> <<>>, last_delivery_order_id |-> 0]
\* The local state of a session's place-order request; last is the outcome of
\* the session's latest request when that was a place-order request.
IdlePo(last) ==
    [pc |-> "idle", last |-> last, subtotal |-> 0, fee |-> 0, total |-> 0,
     lines |-> {}, coupon |-> 0, coupon_code |-> "", coupon_discount |-> 0,
     name |-> "", phone |-> <<>>, order |-> 0]

Busy(s) == po[s].pc # "idle"

\* delivery_set_location: loc is a place with its haversine distance from the
\* restaurant (1/100 degree, 1/100 km).
delivery_set_location(s, loc) ==
    LET promo == _apply_promo_delivery_fee(delivery_fee_for_distance(loc.dist),
                     SumField(CartLines(sessions[s].cart), "line_total"))
    IN  /\ ~Busy(s)
        /\ sessions' = [sessions EXCEPT ![s].delivery_lat = loc.lat,
                                        ![s].delivery_lng = loc.lng,
                                        ![s].delivery_distance_km = loc.dist,
                                        ![s].delivery_fee = promo.fee,
                                        ![s].delivery_promo = promo.info]
        /\ po' = [po EXCEPT ![s] = IdlePo("none")]
        /\ UNCHANGED <<now, menu, promotions, pricing, edit, telegram, summary, coupons, loyalty, orders, orderItems>>
        /\ UNCHANGED bookingVars

\* delivery_cart_add
delivery_cart_add_AnyQty(s, item_id, qty0) ==
    LET cart == sessions[s].cart
        cur == IF item_id \in DOMAIN cart THEN cart[item_id] ELSE 0
    IN  /\ ~Busy(s)
        /\ item_id \in DOMAIN menu
        /\ sessions' = IF menu[item_id].status = "hidden" THEN sessions
                       ELSE [sessions EXCEPT ![s].cart =
                               [i \in DOMAIN cart \cup {item_id} |->
                                   IF i = item_id THEN cur + qty0 ELSE cart[i]]]
        /\ po' = [po EXCEPT ![s] = IdlePo("none")]
        /\ UNCHANGED <<now, menu, promotions, pricing, edit, telegram, summary, coupons, loyalty, orders, orderItems>>
        /\ UNCHANGED bookingVars

delivery_cart_add_ForgetsFee(s, item_id, qty0) ==
    LET qty == IF qty0 <= 0 THEN 1 ELSE qty0
        cart == sessions[s].cart
        cur == IF item_id \in DOMAIN cart THEN cart[item_id] ELSE 0
    IN  /\ ~Busy(s)
        /\ item_id \in DOMAIN menu
        /\ sessions' = IF menu[item_id].status = "hidden" THEN sessions
                       ELSE [sessions EXCEPT ![s].cart =
                               [i \in DOMAIN cart \cup {item_id} |->
                                   IF i = item_id THEN cur + qty ELSE cart[i]],
                                             ![s].delivery_fee = None]
        /\ po' = [po EXCEPT ![s] = IdlePo("none")]
        /\ UNCHANGED <<now, menu, promotions, pricing, edit, telegram, summary, coupons, loyalty, orders, orderItems>>
        /\ UNCHANGED bookingVars

delivery_cart_add(s, item_id, qty0) ==
    LET qty == IF qty0 <= 0 THEN 1 ELSE qty0
        cart == sessions[s].cart
        cur == IF item_id \in DOMAIN cart THEN cart[item_id] ELSE 0
    IN  /\ ~Busy(s)
        /\ item_id \in DOMAIN menu
        /\ sessions' = IF menu[item_id].status = "hidden" THEN sessions
                       ELSE [sessions EXCEPT ![s].cart =
                               [i \in DOMAIN cart \cup {item_id} |->
                                   IF i = item_id THEN cur + qty ELSE cart[i]]]
        /\ po' = [po EXCEPT ![s] = IdlePo("none")]
        /\ UNCHANGED <<now, menu, promotions, pricing, edit, telegram, summary, coupons, loyalty, orders, orderItems>>
        /\ UNCHANGED bookingVars

\* delivery_cart_update
delivery_cart_update(s, item_id, qty) ==
    LET cart == sessions[s].cart
    IN  /\ ~Busy(s)
        /\ item_id \in DOMAIN menu
        /\ sessions' = IF menu[item_id].status = "hidden" THEN sessions
                       ELSE [sessions EXCEPT ![s].cart =
                               IF qty <= 0
                               THEN [i \in DOMAIN cart \ {item_id} |-> cart[i]]
                               ELSE [i \in DOMAIN cart \cup {item_id} |->
                                        IF i = item_id THEN qty ELSE cart[i]]]
        /\ po' = [po EXCEPT ![s] = IdlePo("none")]
        /\ UNCHANGED <<now, menu, promotions, pricing, edit, telegram, summary, coupons, loyalty, orders, orderItems>>
        /\ UNCHANGED bookingVars

\* menu_items_bulk_update (POST, staff): sets the status of the selected items.
MenuStatuses == {"active", "sold_out", "hidden"}

menu_items_bulk_update(ids, new_status) ==
    /\ menu' = IF new_status \in MenuStatuses /\ ids # {}
               THEN [i \in DOMAIN menu |->
                        IF i \in ids THEN [menu[i] EXCEPT !.status = new_status]
                        ELSE menu[i]]
               ELSE menu
    /\ UNCHANGED <<now, promotions, pricing, edit, telegram>>
    /\ UNCHANGED bookingVars
    /\ UNCHANGED deliveryVars

\* edit_menu_item (POST, staff) with a valid MenuItemForm: name, price and
\* status of the item are replaced.
edit_menu_item(pk, name, price, status) ==
    /\ pk \in DOMAIN menu
    /\ status \in MenuStatuses
    /\ menu' = [menu EXCEPT ![pk] = [name |-> name, price |-> price, status |-> status]]
    /\ UNCHANGED <<now, promotions, pricing, edit, telegram>>
    /\ UNCHANGED bookingVars
    /\ UNCHANGED deliveryVars

\* item.delete() with the ProtectedError handler of delete_menu_item and
\* menu_items_bulk_delete: an item referenced by a ReservationItem
\* (on_delete = PROTECT) is hidden instead of deleted.
DeleteOrHide(mn, pk, items) ==
    IF pk \notin DOMAIN mn THEN mn
    ELSE IF \E it \in items : it.menu_item = pk
    THEN [mn EXCEPT ![pk].status = "hidden"]
    ELSE [i \in DOMAIN mn \ {pk} |-> mn[i]]

\* delete_menu_item (POST, staff)
delete_menu_item_Cascade(pk) ==
    /\ pk \in DOMAIN menu
    /\ menu' = [i \in DOMAIN menu \ {pk} |-> menu[i]]
    /\ resItems' = {it \in resItems : it.menu_item # pk}
    /\ UNCHANGED <<now, promotions, pricing, edit, telegram, reservations, req, resp>>
    /\ UNCHANGED deliveryVars

delete_menu_item(pk) ==
    /\ pk \in DOMAIN menu
    /\ menu' = DeleteOrHide(menu, pk, resItems)
    /\ resItems' = resItems
    /\ UNCHANGED <<now, promotions, pricing, edit, telegram, reservations, req, resp>>
    /\ UNCHANGED deliveryVars

\* menu_items_bulk_delete (POST, staff): the loop over the selected ids.
RECURSIVE DeleteOrHideAll(_, _, _)
DeleteOrHideAll(mn, ids, items) ==
    IF ids = {} THEN mn
    ELSE LET pk == CHOOSE x \in ids : TRUE
         IN  DeleteOrHideAll(DeleteOrHide(mn, pk, items), ids \ {pk}, items)

menu_items_bulk_delete(ids) ==
    /\ menu' = DeleteOrHideAll(menu, ids, resItems)
    /\ UNCHANGED <<now, promotions, pricing, edit, telegram>>
    /\ UNCHANGED bookingVars
    /\ UNCHANGED deliveryVars

\* DeliveryCouponForm: clean_code upper-cases the code and refuses an empty
\* one or one with a space; clean refuses end_at <= start_at and replaces an
\* empty start_at by the current time.
DeliveryCouponForm_clean(f, nw) ==
    [ok |-> /\ f.code # ""
            /\ ~(f.start_at # None /\ f.end_at # None /\ f.end_at <= f.start_at),
     data |-> [f EXCEPT !.code = Upper(f.code),
                        !.start_at = IF f.start_at = None THEN nw
                                     ELSE f.start_at]]

\* obj.save() of delivery_coupon_edit: Model.save() without update_fields
\* writes every column of the instance, the form's fields from the cleaned
\* data and the others, used_count among them, as the instance was loaded.
SaveEditedCoupon(obj, data) ==
    [obj EXCEPT !.code = data.code, !.is_active = data.is_active,
                !.discount_type = data.discount_type,
                !.discount_value = data.discount_value,
                !.min_subtotal = data.min_subtotal,
                !.start_at = data.start_at, !.end_at = data.end_at,
                !.max_uses = data.max_uses]

\* delivery_coupon_edit (POST, staff), step 1: get_object_or_404 loads the row.
coupon_edit_get(pk) ==
    /\ edit.pc = "idle"
    /\ pk \in DOMAIN coupons
    /\ edit' = [pc |-> "loaded", pk |-> pk, obj |-> coupons[pk]]
    /\ UNCHANGED <<now, menu, promotions, pricing, telegram>>
    /\ UNCHANGED bookingVars
    /\ UNCHANGED deliveryVars

\* Step 2: form.is_valid() and obj.save(). The UPDATE of a row deleted in the
\* meantime matches nothing and save() inserts the instance again.
coupon_edit_save(f) ==
    LET form == DeliveryCouponForm_clean(f, now)
    IN  /\ edit.pc = "loaded"
        /\ coupons' = IF form.ok
                      THEN (edit.pk :> SaveEditedCoupon(edit.obj, form.data)) @@ coupons
                      ELSE coupons
        /\ edit' = IdleEdit
        /\ UNCHANGED <<now, menu, promotions, pricing, telegram, summary, loyalty, sessions, orders, orderItems, po>>
        /\ UNCHANGED bookingVars

\* delivery_coupon_edit as one whole request, with no other request between
\* its load and its save.
delivery_coupon_edit(pk, f) ==
    LET form == DeliveryCouponForm_clean(f, now)
    IN  /\ edit.pc = "idle"
        /\ pk \in DOMAIN coupons
        /\ coupons' = IF form.ok
                      THEN [coupons EXCEPT ![pk] = SaveEditedCoupon(@, form.data)]
                      ELSE coupons
        /\ UNCHANGED <<now, menu, promotions, pricing, edit, telegram, summary, loyalty, sessions, orders, orderItems, po>>
        /\ UNCHANGED bookingVars

\* delivery_coupon_delete (POST, staff)
delivery_coupon_delete(pk) ==
    /\ pk \in DOMAIN coupons
    /\ coupons' = [k \in DOMAIN coupons \ {pk} |-> coupons[k]]
    /\ UNCHANGED <<now, menu, promotions, pricing, edit, telegram, summary, loyalty, sessions, orders, orderItems, po>>
    /\ UNCHANGED bookingVars

\* delivery_apply_coupon: the code is stored when the coupon exists, is current
\* and the cart subtotal reaches its min_subtotal; otherwise nothing changes.
delivery_apply_coupon(s, code) ==
    LET k == LookupCoupon(code)
        cart == _cart_totals(s)
        accepted == /\ code # ""
                    /\ k # 0
                    /\ is_current(coupons[k], now)
                    /\ ~(Or(cart.subtotal, 0) < coupons[k].min_subtotal)
    IN  /\ ~Busy(s)
        /\ sessions' = IF accepted
                       THEN [sessions EXCEPT ![s].coupon_code = coupons[k].code]
                       ELSE sessions
        /\ po' = [po EXCEPT ![s] = IdlePo("none")]
        /\ UNCHANGED <<now, menu, promotions, pricing, edit, telegram, summary, coupons, loyalty, orders, orderItems>>
        /\ UNCHANGED bookingVars

\* delivery_remove_coupon
delivery_remove_coupon(s) ==
    /\ ~Busy(s)
    /\ sessions' = [sessions EXCEPT ![s].coupon_code = ""]
    /\ po' = [po EXCEPT ![s] = IdlePo("none")]
    /\ UNCHANGED <<now, menu, promotions, pricing, edit, telegram, summary, coupons, loyalty, orders, orderItems>>
    /\ UNCHANGED bookingVars

\* delivery_cart_summary (GET): answers with the totals of the session's cart.
NoSummary == [ok |-> FALSE]

SummaryDropsCoupon(s) ==
    /\ ~Busy(s)
    /\ summary' = [summary EXCEPT ![s] = [ok |-> TRUE, cart |-> _cart_totals(s)]]
    /\ sessions' = [sessions EXCEPT ![s].coupon_code = ""]
    /\ po' = [po EXCEPT ![s] = IdlePo("none")]
    /\ UNCHANGED <<now, menu, promotions, pricing, edit, telegram, coupons, loyalty, orders, orderItems>>
    /\ UNCHANGED bookingVars

delivery_cart_summary(s) ==
    /\ ~Busy(s)
    /\ summary' = [summary EXCEPT ![s] = [ok |-> TRUE, cart |-> _cart_totals(s)]]
    /\ po' = [po EXCEPT ![s] = IdlePo("none")]
    /\ UNCHANGED <<now, menu, promotions, pricing, edit, telegram, coupons, loyalty, sessions, orders, orderItems>>
    /\ UNCHANGED bookingVars

\* delivery_place_order up to the coupon snapshot (lines 1593-1658): the
\* validations in their order, then the cart totals and the coupon the order
\* will record. The result is the request's local state.
PlaceOrderSnapshot(s, cart, name, phone, normalized_phone, k) ==
    IF Or(sessions[s].delivery_lat, 0) = 0 \/ Or(sessions[s].delivery_lng, 0) = 0
    THEN IdlePo("no_location")
    ELSE IF cart.lines = {} THEN IdlePo("empty_cart")
    ELSE IF name = "" \/ phone = <<>> THEN IdlePo("missing_contact")
    ELSE IF normalized_phone = <<>> THEN IdlePo("bad_phone")
    ELSE [pc |-> "create", last |-> "none",
          subtotal |-> Or(cart.subtotal, 0), fee |-> Or(cart.delivery_fee, 0),
          total |-> Or(cart.total, Or(cart.subtotal, 0) + Or(cart.delivery_fee, 0)),
          lines |-> cart.lines, coupon |-> k,
          coupon_code |-> IF k # 0 THEN coupons[k].code ELSE "",
          coupon_discount |-> IF k # 0
                              THEN compute_discount(coupons[k], Or(cart.subtotal, 0))
                              ELSE 0,
          name |-> name, phone |-> normalized_phone, order |-> 0]

PlaceOrderContact_AnyPhone(s, cart, name, phone, k) ==
    PlaceOrderSnapshot(s, cart, name, phone, phone, k)

PlaceOrderContact(s, cart, name, phone, k) ==
    PlaceOrderSnapshot(s, cart, name, phone, _normalize_fi_phone(phone), k)

PlaceOrderLocals(s, post_name, post_phone) ==
    PlaceOrderContact(s, _cart_totals(s),
                      IF post_name # "" THEN post_name ELSE sessions[s].customer_name,
                      IF post_phone # <<>> THEN post_phone ELSE sessions[s].customer_phone,
                      _get_coupon_from_session(s))

\* The row written by DeliveryOrder.objects.create (lines 1660-1680).
NewOrder(s, r, oid) ==
    [id |-> oid,
     user |-> IF sessions[s].user = Anonymous THEN NoUser ELSE sessions[s].user,
     status |-> "pending", created_at |-> now,
     customer_name |-> r.name, customer_phone |-> r.phone,
     distance_km |-> Or(sessions[s].delivery_distance_km, 0),
     subtotal |-> r.subtotal, delivery_fee |-> r.fee, total |-> r.total,
     coupon_code |-> r.coupon_code, coupon_discount |-> r.coupon_discount]

\* The line snapshot given to DeliveryOrderItem.objects.bulk_create (1682-1715).
OrderBulk(r, oid) ==
    {[order |-> oid,
      name |-> IF ln.id \in DOMAIN menu /\ menu[ln.id].status # "hidden"
               THEN menu[ln.id].name ELSE ln.name,
      qty |-> ln.qty, unit_price |-> ln.unit_price] :
         ln \in {l \in r.lines : l.qty > 0}}

\* The session after a placed order (1723-1735).
SessionAfterOrder_KeepsCart(ss, r, oid) ==
    [ss EXCEPT !.customer_phone = r.phone, !.last_delivery_order_id = oid]

SessionAfterOrder(ss, r, oid) ==
    [ss EXCEPT !.cart = EmptyCart, !.coupon_code = "",
               !.customer_phone = r.phone, !.last_delivery_order_id = oid]

\* Step 1 of delivery_place_order: validation and snapshot.
place_order_validate(s, post_name, post_phone) ==
    /\ ~Busy(s)
    /\ po' = [po EXCEPT ![s] = PlaceOrderLocals(s, post_name, post_phone)]
    /\ UNCHANGED <<now, menu, promotions, pricing, edit, telegram, summary, coupons, loyalty, sessions, orders, orderItems>>
    /\ UNCHANGED bookingVars

\* Step 2: DeliveryOrder.objects.create
place_order_create(s) ==
    LET r == po[s]
        oid == Len(orders) + 1
    IN  /\ r.pc = "create"
        /\ orders' = Append(orders, NewOrder(s, r, oid))
        /\ po' = [po EXCEPT ![s].pc = "items", ![s].order = oid]
        /\ UNCHANGED <<now, menu, promotions, pricing, edit, telegram, summary, coupons, loyalty, sessions, orderItems>>
        /\ UNCHANGED bookingVars

\* Step 3: DeliveryOrderItem.objects.bulk_create
place_order_items(s) ==
    LET r == po[s]
    IN  /\ r.pc = "items"
        /\ orderItems' = orderItems \cup OrderBulk(r, r.order)
        /\ po' = [po EXCEPT ![s].pc = "coupon"]
        /\ UNCHANGED <<now, menu, promotions, pricing, edit, telegram, summary, coupons, loyalty, sessions, orders>>
        /\ UNCHANGED bookingVars

\* Step 4: the F("used_count") + 1 update of the coupon row, then the session
\* is cleared (cart, coupon code) and the normalized phone stored.
IncrementOverwrite(cps, k) ==
    IF k # 0 /\ k \in DOMAIN cps
    THEN [cps EXCEPT ![k].used_count = 1]
    ELSE cps

IncrementUsedCount(cps, k) ==
    IF k # 0 /\ k \in DOMAIN cps
    THEN [cps EXCEPT ![k].used_count = @ + 1]
    ELSE cps

place_order_finish(s) ==
    LET r == po[s]
    IN  /\ r.pc = "coupon"
        /\ coupons' = IncrementUsedCount(coupons, r.coupon)
        /\ telegram' = telegram_notify(telegram, "delivery").telegram
        /\ IF telegram_notify(telegram, "delivery").raised
           THEN /\ po' = [po EXCEPT ![s] = IdlePo("server_error")]
                /\ UNCHANGED sessions
           ELSE /\ sessions' = [sessions EXCEPT ![s] = SessionAfterOrder(@, r, r.order)]
                /\ po' = [po EXCEPT ![s] = IdlePo("placed")]
        /\ UNCHANGED <<now, menu, promotions, pricing, edit, summary, loyalty, orders, orderItems>>
        /\ UNCHANGED bookingVars

\* A place-order request that ends in an unhandled exception after its
\* snapshot: the writes of lines 1660-1722 run in autocommit, outside any
\* transaction.atomic block and without try/except, so the rows already
\* written stay and the remaining statements never run.
place_order_abort(s) ==
    /\ po[s].pc \in {"create", "items", "coupon"}
    /\ po' = [po EXCEPT ![s] = IdlePo("server_error")]
    /\ UNCHANGED <<now, menu, promotions, pricing, edit, telegram, summary, coupons, loyalty, sessions, orders, orderItems>>
    /\ UNCHANGED bookingVars

\* delivery_place_order as one whole request, with no other place-order
\* request in flight.
delivery_place_order(s, post_name, post_phone) ==
    LET r == PlaceOrderLocals(s, post_name, post_phone)
        oid == Len(orders) + 1
    IN  /\ \A q \in Sessions : ~Busy(q)
        /\ IF r.pc = "idle"
           THEN /\ po' = [po EXCEPT ![s] = r]
                /\ UNCHANGED <<coupons, sessions, orders, orderItems, telegram>>
           ELSE /\ orders' = Append(orders, NewOrder(s, r, oid))
                /\ orderItems' = orderItems \cup OrderBulk(r, oid)
                /\ coupons' = IncrementUsedCount(coupons, r.coupon)
                /\ telegram' = telegram_notify(telegram, "delivery").telegram
                /\ IF telegram_notify(telegram, "delivery").raised
                   THEN /\ po' = [po EXCEPT ![s] = IdlePo("server_error")]
                        /\ UNCHANGED sessions
                   ELSE /\ sessions' = [sessions EXCEPT ![s] = SessionAfterOrder(@, r, oid)]
                        /\ po' = [po EXCEPT ![s] = IdlePo("placed")]
        /\ UNCHANGED <<now, menu, promotions, pricing, edit, summary, loyalty>>
        /\ UNCHANGED bookingVars

OrderStatuses == {"pending", "accepted", "preparing", "out_for_delivery",
                  "delivered", "cancelled"}

\* delivery_order_update_status
UpdateStatusNoAccrual(pk, new_status) ==
    /\ pk \in DOMAIN orders
    /\ new_status \in OrderStatuses
    /\ orders' = [orders EXCEPT ![pk].status = new_status]
    /\ UNCHANGED <<now, menu, promotions, pricing, edit, telegram, summary, coupons, loyalty, sessions, orderItems, po>>
    /\ UNCHANGED bookingVars

delivery_order_update_status(pk, new_status) ==
    LET ords == [orders EXCEPT ![pk].status = new_status]
    IN  /\ pk \in DOMAIN orders
        /\ IF new_status \in OrderStatuses
           THEN /\ orders' = ords
                /\ coupons' = IF new_status = "delivered" /\ orders[pk].user # NoUser
                              THEN _ensure_loyalty_coupon_for_user(orders[pk].user,
                                                                   coupons, ords)
                              ELSE coupons
           ELSE UNCHANGED <<orders, coupons>>
        /\ UNCHANGED <<now, menu, promotions, pricing, edit, telegram, summary, loyalty, sessions, orderItems, po>>
        /\ UNCHANGED bookingVars

\* The loop of delivery_orders_bulk_update over the users of the updated orders.
RECURSIVE EnsureForUsers(_, _, _)
EnsureForUsers(us, cps, ords) ==
    IF us = {} THEN cps
    ELSE LET u == CHOOSE x \in us : TRUE
         IN  EnsureForUsers(us \ {u}, _ensure_loyalty_coupon_for_user(u, cps, ords), ords)

\* delivery_orders_bulk_update
delivery_orders_bulk_update(ids, new_status) ==
    LET hit == ids \cap DOMAIN orders
        ords == [i \in DOMAIN orders |->
                    IF i \in hit THEN [orders[i] EXCEPT !.status = new_status]
                    ELSE orders[i]]
        user_ids == {orders[i].user : i \in hit} \ {NoUser}
    IN  /\ IF new_status \in OrderStatuses /\ ids # {}
           THEN /\ orders' = ords
                /\ coupons' = IF new_status = "delivered"
                              THEN EnsureForUsers(user_ids, coupons, ords)
                              ELSE coupons
           ELSE UNCHANGED <<orders, coupons>>
        /\ UNCHANGED <<now, menu, promotions, pricing, edit, telegram, summary, loyalty, sessions, orderItems, po>>
        /\ UNCHANGED bookingVars

\* delivery_checkout (GET): the page is rendered when the cart has priced
\* lines or the confirmation of the session's last order is shown; rendering
\* builds the loyalty context of the user, which issues the coupon when the
\* user is eligible.
delivery_checkout(s, placed) ==
    LET ss == sessions[s]
        cart == _cart_totals(s)
        cfg == _loyalty_config
        order_obj == placed /\ ss.last_delivery_order_id \in DOMAIN orders
        rendered == /\ ~(Or(ss.delivery_lat, 0) = 0 \/ Or(ss.delivery_lng, 0) = 0)
                    /\ (cart.count > 0 \/ order_obj)
    IN  /\ ~Busy(s)
        /\ coupons' = IF rendered /\ ss.user # Anonymous /\ cfg.enabled
                         /\ _loyalty_delivered_count(ss.user, orders) >= cfg.target
                      THEN _ensure_loyalty_coupon_for_user(ss.user, coupons, orders)
                      ELSE coupons
        /\ sessions' = IF rendered /\ order_obj
                       THEN [sessions EXCEPT ![s].last_delivery_order_id = 0]
                       ELSE sessions
        /\ po' = [po EXCEPT ![s] = IdlePo("none")]
        /\ UNCHANGED <<now, menu, promotions, pricing, edit, telegram, summary, loyalty, orders, orderItems>>
        /\ UNCHANGED bookingVars

----------------------------------------------------------------------------
(* Specifications of the reservation allocator *)

\* Booking inputs: <<day, minute of day, second>> (09:30, 10:00, 21:30,
\* 21:30:15, 21:45, 22:00), <<party_size, baby_seats>> and the posted
\* pre-order lines.
StartInputs == {<<0, 570, 0>>, <<0, 600, 0>>, <<0, 1290, 0>>, <<0, 1290, 15>>,
                <<0, 1305, 0>>, <<0, 1320, 0>>}
PartyInputs == {<<17, 0>>, <<30, 0>>, <<17, 2>>, <<30, 2>>}
PreInputs == {<<[id |-> 1, qty |-> 2], [id |-> 3, qty |-> 1], [id |-> 2, qty |-> 0]>>}
StartInputsConc == {<<0, 1290, 0>>, <<0, 1305, 0>>}
PartyInputsConc == {<<17, 0>>, <<30, 0>>, <<17, 2>>}
PreInputsConc == {<<[id |-> 1, qty |-> 2], [id |-> 3, qty |-> 1], [id |-> 2, qty |-> 0]>>,
                  <<[id |-> 1, qty |-> 1], [id |-> 1, qty |-> 1]>>}

NextBooking ==
    \/ Tick
    \/ \E st \in StartInputs, ps \in PartyInputs, pre \in PreInputs :
          reservation("a", st[1], st[2], st[3], ps[1], ps[2], pre)

SpecBooking == InitBooking /\ [][NextBooking]_vars

\* Bookings of one slot (21:30 of day 0) by parties of every size around the
\* multiples of four, up to MaxBookings stored rows.
MaxBookings == 4
TableParties == {0, 1, 4, 5, 8, 9, 17}

NextTables ==
    \E ps \in TableParties :
        /\ Cardinality(reservations) < MaxBookings
        /\ reservation("a", 0, 1290, 0, ps, 0, <<>>)

SpecTables == InitBooking /\ [][NextTables]_vars

\* Staff updating the status of up to MaxBookings reservations of one slot.
StatusInputs == ReservationStatuses \cup {"bogus"}

NextReservationStatus ==
    \/ Cardinality(reservations) < MaxBookings /\ reservation("a", 0, 1290, 0, 4, 0, <<>>)
    \/ \E r \in reservations, st \in StatusInputs : reservation_update_status(r.id, st)
    \/ \E ids \in SUBSET {r.id : r \in reservations}, st \in StatusInputs :
          reservations_bulk_update(ids, st)

SpecReservationStatus == InitBooking /\ [][NextReservationStatus]_vars

\* Bookings for the 21:30 slot while staff cancel, complete and delete
\* reservations.
NextCancel ==
    \/ \E ps \in PartyInputs :
          Cardinality(reservations) < MaxBookings
          /\ reservation("a", 0, 21 * 60 + 30, 0, ps[1], ps[2], <<>>)
    \/ \E r \in reservations, st \in {"cancelled", "completed"} :
          reservation_update_status(r.id, st)
    \/ \E r \in reservations : reservations_bulk_update({r.id}, "cancelled")
    \/ \E r \in reservations : reservations_bulk_delete({r.id})

SpecCancel == InitBooking /\ [][NextCancel]_vars

NextBookingConc ==
    \/ \E p \in Clients, st \in StartInputsConc, ps \in PartyInputsConc,
          pre \in PreInputsConc :
          reservation_is_valid(p, st[1], st[2], st[3], ps[1], ps[2], pre)
    \/ \E p \in Clients : reservation_full_clean(p)
    \/ \E p \in Clients : reservation_save(p)
    \/ \E p \in Clients : reservation_items_commit(p)

SpecBookingConc == InitBooking /\ [][NextBookingConc]_vars

----------------------------------------------------------------------------
(* Specifications of the delivery engine *)

PublicCoupon(code, type, value, min_subtotal, start_at, end_at, max_uses) ==
    [code |-> code, is_active |-> TRUE, discount_type |-> type,
     discount_value |-> value, min_subtotal |-> min_subtotal,
     start_at |-> start_at, end_at |-> end_at, max_uses |-> max_uses,
     used_count |-> 0, is_personal |-> FALSE, assigned_user |-> NoUser,
     issued_month |-> 0]

PersonalCoupon(code, value, user) ==
    [PublicCoupon(code, "percent", value, 0, 0, 31 * 86400, 1)
        EXCEPT !.is_personal = TRUE, !.assigned_user = user, !.issued_month = 1]

\* Coupons of the delivery specifications: a fixed coupon with one use, a
\* free-delivery coupon valid from 10:00 to 15:00 of day 0, a personal
\* coupon of user u1 and a deactivated coupon.
CouponsInit ==
    <<PublicCoupon("FIX10", "fixed", 1000, 0, None, None, 1),
      PublicCoupon("FREE", "free_delivery", 0, 1000, TickSeconds, TickSeconds + 5 * 3600, None),
      PersonalCoupon("VIP50", 50, "u1"),
      [PublicCoupon("OLD", "percent", 10, 0, None, None, None) EXCEPT !.is_active = FALSE]>>

InitDeliveryPriced(prc, promos, cps, prog, u2) ==
    /\ now = 0
    /\ menu = MenuInit
    /\ promotions = promos
    /\ pricing = prc
    /\ edit = IdleEdit
    /\ telegram = TelegramUp
    /\ reservations = {}
    /\ resItems = {}
    /\ req = [p \in Clients |-> IdleReq]
    /\ resp = [p \in Clients |-> NoResp]
    /\ coupons = cps
    /\ loyalty = prog
    /\ sessions = [s \in Sessions |-> IF s = "s1" THEN NewSession("u1") ELSE NewSession(u2)]
    /\ orders = <<>>
    /\ orderItems = {}
    /\ summary = [s \in Sessions |-> NoSummary]
    /\ po = [s \in Sessions |-> IdlePo("none")]

InitDeliveryWith(promos, cps, prog, u2) == InitDeliveryPriced(<<>>, promos, cps, prog, u2)

InitDeliveryOf(cps, prog, u2) == InitDeliveryWith(<<>>, cps, prog, u2)

MaxOrders == 2
MaxQty == 2

InFlight == Cardinality({s \in Sessions : Busy(s)})
CartQty(s) == SumField({[id |-> i, qty |-> sessions[s].cart[i]] : i \in DOMAIN sessions[s].cart}, "qty")

\* Places with their distance from the restaurant: 1.5 km and 5 km.
NearPlace == [lat |-> 6261, lng |-> 2977, dist |-> 150]
FarPlace == [lat |-> 6264, lng |-> 2982, dist |-> 500]
GoodPhone == <<"+", "3", "5", "8", " ", "4", "0", "1", "2", "3", "4", "5">>
BadPhone == <<"0", "4", "0", "1", "2", "3", "4", "5">>

\* Sequential requests of the session of u1 while time passes: carts, stored
\* fees and coupons of every type.
InitPricing == InitDeliveryOf(CouponsInit, NoProgram, Anonymous)

NextPricing ==
    \/ Tick
    \/ \E loc \in {NearPlace, FarPlace} : delivery_set_location("s1", loc)
    \/ CartQty("s1") < MaxQty /\ delivery_cart_add("s1", 1, 1)
    \/ delivery_cart_update("s1", 1, 0)
    \/ \E code \in {"fix10", "FREE", "VIP50", "OLD", "NOPE"} : delivery_apply_coupon("s1", code)
    \/ delivery_remove_coupon("s1")
    \/ \E ph \in {GoodPhone, BadPhone} :
          Len(orders) < MaxOrders /\ delivery_place_order("s1", "Aino", ph)

SpecPricing == InitPricing /\ [][NextPricing]_vars

\* DeliveryPromotion rows as the admin site stores them.
Promotion(active, start_at, end_at, min_subtotal, free, created_at) ==
    [is_active |-> active, start_at |-> start_at, end_at |-> end_at,
     min_subtotal |-> min_subtotal, free_delivery |-> free, created_at |-> created_at]

\* Promotion tables: none; a free-delivery promotion from 10.00 upwards; one
\* valid only at the first tick; an inactive one; an older free-delivery
\* promotion shadowed by a newer one that only advertises.
PromotionTables ==
    { <<>>,
      <<Promotion(TRUE, None, None, 1000, TRUE, 1)>>,
      <<Promotion(TRUE, TickSeconds, TickSeconds, 0, TRUE, 1)>>,
      <<Promotion(FALSE, None, None, 0, TRUE, 1)>>,
      <<Promotion(TRUE, None, None, 0, TRUE, 1), Promotion(TRUE, None, None, 500, FALSE, 2)>> }

\* One customer choosing a place and filling the cart under every promotion
\* table, with and without a coupon.
InitPromo ==
    \E promos \in PromotionTables : InitDeliveryWith(promos, CouponsInit, NoProgram, Anonymous)

NextPromo ==
    \/ Tick
    \/ \E loc \in {NearPlace, FarPlace} : delivery_set_location("s1", loc)
    \/ CartQty("s1") < MaxQty /\ delivery_cart_add("s1", 1, 1)
    \/ delivery_cart_update("s1", 1, 0)
    \/ \E code \in {"fix10", "FREE"} : delivery_apply_coupon("s1", code)
    \/ delivery_remove_coupon("s1")
    \/ delivery_cart_summary("s1")

SpecPromo == InitPromo /\ [][NextPromo]_vars

\* Promotion tables for the choice of the active promotion: none; one with no
\* window; a deactivated newest row over an older active one; an open-ended
\* older promotion under a newer active one valid only at the first tick.
ActivePromoTables ==
    { <<>>,
      <<Promotion(TRUE, None, None, 1000, TRUE, 1)>>,
      <<Promotion(TRUE, None, TickSeconds, 0, TRUE, 1), Promotion(FALSE, None, None, 500, TRUE, 2)>>,
      <<Promotion(TRUE, None, None, 0, TRUE, 1),
        Promotion(TRUE, TickSeconds, TickSeconds, 500, TRUE, 2)>> }

InitActivePromo ==
    \E promos \in ActivePromoTables : InitDeliveryWith(promos, CouponsInit, NoProgram, Anonymous)

NextActivePromo ==
    \/ Tick
    \/ \E loc \in {NearPlace, FarPlace} : delivery_set_location("s1", loc)
    \/ CartQty("s1") < MaxQty /\ delivery_cart_add("s1", 1, 1)
    \/ delivery_cart_update("s1", 1, 0)

SpecActivePromo == InitActivePromo /\ [][NextActivePromo]_vars

\* Coupons for the discount rule, one per table: 10 percent; 50 percent from
\* 10.00; 150 percent; 3.00 off; 30.00 off from 25.00; a negative amount.
\* Nothing validates discount_value, so the last two columns of the rule
\* (above the subtotal, below zero) can be stored.
DiscountCoupons ==
    { PublicCoupon("PERCENT10", "percent", 10, 0, None, None, None),
      PublicCoupon("HALF", "percent", 50, 1000, None, None, None),
      PublicCoupon("OVER", "percent", 150, 0, None, None, None),
      PublicCoupon("FIX3", "fixed", 300, 0, None, None, None),
      PublicCoupon("FIX30", "fixed", 3000, 2500, None, None, None),
      PublicCoupon("NEG", "fixed", -100, 0, None, None, None) }

\* Quantities posted to delivery_cart_add: one or five of an item, giving
\* subtotals of 5.00, 10.00, 25.00 and 50.00.
QtyInputs == {1, 5}

InitDiscount ==
    \E c \in DiscountCoupons : InitDeliveryOf(<<c>>, NoProgram, Anonymous)

\* One customer pricing a cart with the coupon of the table.
NextDiscount ==
    \/ \E loc \in {NearPlace, FarPlace} : delivery_set_location("s1", loc)
    \/ \E i \in {1, 2} : \E q \in QtyInputs :
          sessions["s1"].cart = EmptyCart /\ delivery_cart_add("s1", i, q)
    \/ \E i \in {1, 2} : delivery_cart_update("s1", i, 0)
    \/ delivery_apply_coupon("s1", coupons[1].code)
    \/ delivery_remove_coupon("s1")
    \/ delivery_cart_summary("s1")

SpecDiscount == InitDiscount /\ [][NextDiscount]_vars

\* DeliveryPricing rows (distances in 1/100 km, money in cents) and the
\* tables drawn: none (fallback values); 2.00 up to 3 km then 1.50 per km, at
\* most 10.00; the same row deactivated; that row updated after a second
\* active one; a base fee above the maximum.
PricingRow(active, base_km, base_fee, per_km_fee, max_fee, updated_at) ==
    [is_active |-> active, base_km |-> base_km, base_fee |-> base_fee,
     per_km_fee |-> per_km_fee, max_fee |-> max_fee, updated_at |-> updated_at]

PricingTables ==
    { <<>>,
      <<PricingRow(TRUE, 300, 200, 150, 1000, 1)>>,
      <<PricingRow(FALSE, 300, 200, 150, 1000, 1)>>,
      <<PricingRow(TRUE, 300, 200, 150, 1000, 2), PricingRow(TRUE, 100, 100, 33, 500, 1)>>,
      <<PricingRow(TRUE, 200, 900, 100, 500, 1)>> }

\* Places at 0, 1.5, 2, 2.5, 3.5, 5 and 20 km from the restaurant.
FeePlaces ==
    { [lat |-> 6260, lng |-> 2975, dist |-> 0],
      NearPlace,
      [lat |-> 6262, lng |-> 2978, dist |-> 200],
      [lat |-> 6262, lng |-> 2979, dist |-> 250],
      [lat |-> 6263, lng |-> 2980, dist |-> 350],
      FarPlace,
      [lat |-> 6278, lng |-> 2990, dist |-> 2000] }

InitFee ==
    \E prc \in PricingTables : InitDeliveryPriced(prc, <<>>, CouponsInit, NoProgram, Anonymous)

\* One customer choosing places under every pricing table.
NextFee ==
    \/ \E loc \in FeePlaces : delivery_set_location("s1", loc)
    \/ CartQty("s1") < MaxQty /\ delivery_cart_add("s1", 1, 1)
    \/ delivery_cart_update("s1", 1, 0)
    \/ delivery_cart_summary("s1")

SpecFee == InitFee /\ [][NextFee]_vars

\* Sequential requests of two sessions (u1 and an anonymous visitor) while
\* time passes: coupons entering and leaving their validity.
NextValidity ==
    \/ Tick
    \/ \E s \in Sessions : delivery_set_location(s, NearPlace)
    \/ \E s \in Sessions : sessions[s].cart = EmptyCart /\ delivery_cart_add(s, 2, 1)
    \/ \E code \in {"fix10", "FREE", "OLD"} : delivery_apply_coupon("s1", code)
    \/ delivery_apply_coupon("s2", "fix10")
    \/ \E s \in Sessions :
          Len(orders) < MaxOrders /\ delivery_place_order(s, "Aino", GoodPhone)

SpecValidity == InitPricing /\ [][NextValidity]_vars

\* Place-order requests of one customer, each statement of the request a
\* step, any of which may be the last one the request executes.
NextPlaceAbort ==
    \/ delivery_set_location("s1", NearPlace)
    \/ sessions["s1"].cart = EmptyCart /\ delivery_cart_add("s1", 1, 1)
    \/ delivery_apply_coupon("s1", "fix10")
    \/ Len(orders) + InFlight < MaxOrders /\ place_order_validate("s1", "Aino", GoodPhone)
    \/ place_order_create("s1")
    \/ place_order_items("s1")
    \/ place_order_finish("s1")
    \/ place_order_abort("s1")

SpecPlaceAbort == InitPricing /\ [][NextPlaceAbort]_vars

\* Bookings and delivery orders placed while the Telegram collaborator works
\* or has stopped working.
NextNotify ==
    \/ \E o \in TelegramOutcomes : telegram_breaks(o)
    \/ Cardinality(reservations) < MaxOrders /\ reservation("a", 0, 21 * 60 + 30, 0, 4, 0, <<>>)
    \/ delivery_set_location("s1", NearPlace)
    \/ sessions["s1"].cart = EmptyCart /\ delivery_cart_add("s1", 1, 1)
    \/ Len(orders) < MaxOrders /\ delivery_place_order("s1", "Aino", GoodPhone)

SpecNotify == InitPricing /\ [][NextNotify]_vars

\* Place-order requests of one customer with and without a location, a
\* cart, a coupon, a name and a valid phone number.
NameInputs == {"", "Aino"}
PhoneInputs == {<<>>, GoodPhone, BadPhone}

NextReject ==
    \/ delivery_set_location("s1", NearPlace)
    \/ \E i \in {1, 2} : i \notin DOMAIN sessions["s1"].cart /\ delivery_cart_add("s1", i, 1)
    \/ \E i \in {1, 2} : delivery_cart_update("s1", i, 0)
    \/ delivery_apply_coupon("s1", "fix10")
    \/ \E nm \in NameInputs, ph \in PhoneInputs :
          Len(orders) < MaxOrders /\ delivery_place_order("s1", nm, ph)

SpecReject == InitPricing /\ [][NextReject]_vars

\* One customer filling a cart and ordering while staff hide and show the
\* soup; the special is hidden from the start.
NextHidden ==
    \/ \E ids \in {{1}, {}}, st \in {"hidden", "active", "bogus"} :
          menu_items_bulk_update(ids, st)
    \/ delivery_set_location("s1", NearPlace)
    \/ \E i \in {1, 2, 3} : i \notin DOMAIN sessions["s1"].cart /\ delivery_cart_add("s1", i, 1)
    \/ \E i \in {1, 3} : delivery_cart_update("s1", i, 0)
    \/ delivery_cart_summary("s1")
    \/ Len(orders) < MaxOrders /\ delivery_place_order("s1", "Aino", GoodPhone)

SpecHidden == InitPricing /\ [][NextHidden]_vars

\* The fields a staff member posts when editing the coupon FIX10: a lower
\* value under a new code, a deactivation, and a window that ends before it
\* starts.
CouponEdits ==
    {[code |-> "FIX5", is_active |-> TRUE, discount_type |-> "fixed", discount_value |-> 500,
      min_subtotal |-> 0, start_at |-> None, end_at |-> None, max_uses |-> None],
     [code |-> "fix10", is_active |-> FALSE, discount_type |-> "percent", discount_value |-> 10,
      min_subtotal |-> 1000, start_at |-> None, end_at |-> None, max_uses |-> 1],
     [code |-> "fix10", is_active |-> TRUE, discount_type |-> "fixed", discount_value |-> 1000,
      min_subtotal |-> 0, start_at |-> 86400, end_at |-> 3600, max_uses |-> 1]}

\* A booking with a pre-order and an order with a coupon are placed, then
\* staff edit, hide and delete the items and the coupon.
NextSnapshot ==
    \/ reservations = {} /\ reservation("a", 0, 21 * 60 + 30, 0, 4, 0, <<[id |-> 1, qty |-> 2]>>)
    \/ delivery_set_location("s1", FarPlace)
    \/ \E i \in {1, 2} : i \notin DOMAIN sessions["s1"].cart /\ delivery_cart_add("s1", i, 1)
    \/ delivery_apply_coupon("s1", "fix10")
    \/ orders = <<>> /\ delivery_place_order("s1", "Aino", GoodPhone)
    \/ edit_menu_item(1, "soup of the day", 650, "active")
    \/ menu_items_bulk_update({2}, "hidden")
    \/ \E pk \in {1, 2} : delete_menu_item(pk)
    \/ menu_items_bulk_delete({1, 2})
    \/ \E f \in CouponEdits : delivery_coupon_edit(1, f)
    \/ delivery_coupon_delete(1)

SpecSnapshot == InitPricing /\ [][NextSnapshot]_vars

\* A customer redeeming FIX10 while a staff member edits it: the edit request
\* loads the row, other requests run, then it saves.
NextCouponEdit ==
    \/ delivery_set_location("s1", NearPlace)
    \/ sessions["s1"].cart = EmptyCart /\ delivery_cart_add("s1", 1, 1)
    \/ delivery_apply_coupon("s1", "fix10")
    \/ Len(orders) < MaxOrders /\ delivery_place_order("s1", "Aino", GoodPhone)
    \/ coupon_edit_get(1)
    \/ \E f \in CouponEdits : coupon_edit_save(f)

SpecCouponEdit == InitPricing /\ [][NextCouponEdit]_vars

\* One customer with the coupon HALF (50 percent from 10.00): the coupon is
\* applied to a cart that reaches its minimum, then the cart shrinks.
InitBelowMin ==
    InitDeliveryOf(<<PublicCoupon("HALF", "percent", 50, 1000, None, None, None)>>,
                   NoProgram, Anonymous)

NextBelowMin ==
    \/ delivery_set_location("s1", FarPlace)
    \/ \E i \in {1, 2} : i \notin DOMAIN sessions["s1"].cart /\ delivery_cart_add("s1", i, 1)
    \/ \E i \in {1, 2} : delivery_cart_update("s1", i, 0)
    \/ delivery_apply_coupon("s1", "HALF")
    \/ delivery_remove_coupon("s1")
    \/ Len(orders) < MaxOrders /\ delivery_place_order("s1", "Aino", GoodPhone)

SpecBelowMin == InitBelowMin /\ [][NextBelowMin]_vars

\* Two customers posting cart requests with every quantity from -1 upwards,
\* for the visible items and the hidden one.
CartQtyInputs == -1 .. MaxQty

NextCart ==
    \/ \E s \in Sessions : \E i \in DOMAIN menu : \E q \in CartQtyInputs :
          CartQty(s) < MaxQty /\ delivery_cart_add(s, i, q)
    \/ \E s \in Sessions : \E i \in DOMAIN menu : \E q \in CartQtyInputs :
          delivery_cart_update(s, i, q)

SpecCart == InitPricing /\ [][NextCart]_vars

\* Staff moving the orders of one customer through every status.
OrderStatusInputs == OrderStatuses \cup {"bogus"}

NextOrderStatus ==
    \/ delivery_set_location("s1", NearPlace)
    \/ sessions["s1"].cart = EmptyCart /\ delivery_cart_add("s1", 1, 1)
    \/ Len(orders) < MaxOrders /\ delivery_place_order("s1", "Aino", GoodPhone)
    \/ \E pk \in DOMAIN orders, st \in OrderStatusInputs : delivery_order_update_status(pk, st)
    \/ \E ids \in SUBSET DOMAIN orders, st \in {"pending", "out_for_delivery", "bogus"} :
          delivery_orders_bulk_update(ids, st)

SpecOrderStatus == InitPricing /\ [][NextOrderStatus]_vars

\* Interleaved place-order requests of the sessions of users u1 and u2, with
\* staff cancelling orders.
InitDelivery == InitDeliveryOf(CouponsInit, NoProgram, "u2")

NextDelivery ==
    \/ \E s \in Sessions : delivery_set_location(s, NearPlace)
    \/ \E s \in Sessions : sessions[s].cart = EmptyCart /\ delivery_cart_add(s, 1, 1)
    \/ \E s \in Sessions : delivery_cart_update(s, 1, 0)
    \/ \E s \in Sessions, code \in {"fix10", "VIP50"} : delivery_apply_coupon(s, code)
    \/ \E s \in Sessions : delivery_remove_coupon(s)
    \/ \E s \in Sessions :
          /\ Len(orders) + InFlight < MaxOrders
          /\ place_order_validate(s, "Aino", GoodPhone)
    \/ \E s \in Sessions : place_order_create(s)
    \/ \E s \in Sessions : place_order_items(s)
    \/ \E s \in Sessions : place_order_finish(s)
    \/ \E pk \in DOMAIN orders : delivery_order_update_status(pk, "cancelled")

SpecDelivery == InitDelivery /\ [][NextDelivery]_vars

\* The personal coupon of u1 in the hands of u1 and of a second requester, who
\* is an anonymous visitor or user u2; place-order requests interleave.
InitOwnership == \E u \in {Anonymous, "u2"} : InitDeliveryOf(CouponsInit, NoProgram, u)

NextOwnership ==
    \/ \E s \in Sessions : delivery_set_location(s, FarPlace)
    \/ \E s \in Sessions : sessions[s].cart = EmptyCart /\ delivery_cart_add(s, 2, 1)
    \/ \E s \in Sessions : delivery_apply_coupon(s, "VIP50")
    \/ \E s \in Sessions :
          /\ Len(orders) + InFlight < MaxOrders
          /\ place_order_validate(s, "Aino", GoodPhone)
    \/ \E s \in Sessions : place_order_create(s)
    \/ \E s \in Sessions : place_order_items(s)
    \/ \E s \in Sessions : place_order_finish(s)

SpecOwnership == InitOwnership /\ [][NextOwnership]_vars

\* The loyalty program with a target of one delivered order per month: orders
\* of users u1 and u2, staff status updates and the checkout page.
LoyaltyInit == [exists |-> TRUE, is_active |-> TRUE, target_orders |-> 1, reward_percent |-> 30]
InitLoyalty == InitDeliveryOf(<<>>, LoyaltyInit, "u2")

NextLoyalty ==
    \/ \E s \in Sessions : delivery_set_location(s, NearPlace)
    \/ \E s \in Sessions : sessions[s].cart = EmptyCart /\ delivery_cart_add(s, 1, 1)
    \/ \E code \in {LoyalCodes[1], LoyalCodes[2]} : delivery_apply_coupon("s1", code)
    \/ \E s \in Sessions :
          Len(orders) < MaxOrders /\ delivery_place_order(s, "Aino", GoodPhone)
    \/ \E pk \in DOMAIN orders, st \in {"delivered", "cancelled"} :
          CanIssue(coupons) /\ delivery_order_update_status(pk, st)
    \/ \E ids \in SUBSET DOMAIN orders :
          CanIssue(coupons) /\ delivery_orders_bulk_update(ids, "delivered")
    \/ \E s \in Sessions, placed \in BOOLEAN :
          CanIssue(coupons) /\ delivery_checkout(s, placed)

SpecLoyalty == InitLoyalty /\ [][NextLoyalty]_vars

\* The loyalty program with a target of two delivered orders per month, over
\* two months: orders of u1 and u2 that are delivered, cancelled or left
\* pending, in the same month or in different ones.
AccrualInit == [exists |-> TRUE, is_active |-> TRUE, target_orders |-> 2, reward_percent |-> 30]
InitAccrual == InitDeliveryOf(<<>>, AccrualInit, "u2")

NextAccrual ==
    \/ NextMonth
    \/ \E s \in Sessions : delivery_set_location(s, NearPlace)
    \/ \E s \in Sessions : sessions[s].cart = EmptyCart /\ delivery_cart_add(s, 1, 1)
    \/ \E s \in Sessions :
          Len(orders) < MaxOrders /\ delivery_place_order(s, "Aino", GoodPhone)
    \/ \E pk \in DOMAIN orders, st \in {"delivered", "cancelled"} :
          CanIssue(coupons) /\ delivery_order_update_status(pk, st)
    \/ CanIssue(coupons) /\ delivery_checkout("s1", FALSE)

SpecAccrual == InitAccrual /\ [][NextAccrual]_vars

----------------------------------------------------------------------------
(* Claims about the reservation allocator *)

Slots == {r.start_datetime : r \in reservations}
RowsAt(s) == {r \in reservations : r.start_datetime = s}
CapacityReasons == {"seats", "baby_seats", "tables"}

\* C1: after any sequence of booking submissions processed one at a time, the
\* rows stored at every start_datetime sum to at most 55 chairs, 2 baby seats
\* and 14 tables.
C1_SequentialCapacity ==
    \A s \in Slots :
        /\ SumField(RowsAt(s), "party_size") <= CHAIRS_TOTAL
        /\ SumField(RowsAt(s), "baby_seats") <= BABY_SEATS_TOTAL
        /\ SumField(RowsAt(s), "tables_needed") <= TABLES_TOTAL

\* C1 witness: a slot holding two parties of 17 (10 tables, 34 chairs) has just
\* refused a third one for lack of tables.
C1_Witness ==
    /\ \E s \in Slots : Cardinality(RowsAt(s)) = 2
                        /\ SumField(RowsAt(s), "tables_needed") = 10
    /\ resp["a"].reason = "tables"

\* C2: when booking requests for one slot interleave between their capacity
\* check and their insert, the sums of the slot still stay within 55 / 2 / 14.
C2_ConcurrentCapacity ==
    \A r \in reservations :
        LET same == {x \in reservations : x.start_datetime = r.start_datetime}
        IN  /\ SumField(same, "party_size") <= 55
            /\ SumField(same, "baby_seats") <= 2
            /\ SumField(same, "tables_needed") <= 14

C8_AllOrNothing ==
    [][ /\ \A p \in Clients :
              (resp'[p] # resp[p] /\ resp'[p].kind \in {"form_error", "server_error"})
                  => UNCHANGED <<reservations, resItems>>
        /\ (reservations' # reservations \/ resItems' # resItems) =>
              \E p \in Clients :
                  /\ req[p].pc = "saved"
                  /\ resp'[p].kind = "ok"
                  /\ \E row \in reservations' \ reservations :
                        /\ reservations' = reservations \cup {row}
                        /\ row.id = resp'[p].rid
                        /\ resItems' = resItems \cup
                               SeqToSet(PreorderBulk(row.id, req[p].pre, menu))
      ]_vars

\* C8 witness: one request was rolled back after its row had been written (the
\* pre-order named an item twice), and a reservation with a pre-order item is
\* stored.
C8_Witness ==
    /\ \E p \in Clients : resp[p].reason = "integrity"
    /\ \E p \in Clients : resp[p].kind = "ok"
                          /\ \E it \in resItems : it.reservation = resp[p].rid
    /\ \A r \in reservations : \E it \in resItems : it.reservation = r.id

----------------------------------------------------------------------------
(* Claims about the delivery engine *)

OrdersWith(k) == {i \in DOMAIN orders : orders[i].coupon_code = coupons[k].code}

\* C3: for a coupon with max_uses set, used_count <= max_uses in every
\* reachable state, and at most max_uses orders are placed with the coupon,
\* also when two place-order requests holding the coupon interleave.
C3_UsedCountWithinMaxUses ==
    \A k \in DOMAIN coupons :
        coupons[k].max_uses # None =>
            /\ coupons[k].used_count <= coupons[k].max_uses
            /\ Cardinality(OrdersWith(k)) <= coupons[k].max_uses

\* C4: for every user and month, at most one personal coupon exists for that
\* (assigned_user, issued_month), whatever accrual calls, deliveries and
\* redemptions happened.
C4_OneLoyaltyCouponPerUserMonth ==
    \A j, k \in DOMAIN coupons :
        (/\ coupons[j].is_personal /\ coupons[k].is_personal
         /\ coupons[j].assigned_user = coupons[k].assigned_user
         /\ coupons[j].issued_month = coupons[k].issued_month) => j = k

\* C5: every persisted order has
\* total = max(0, subtotal - coupon_discount) + delivery_fee.
C5_OrderTotalFormula ==
    \A i \in DOMAIN orders :
        orders[i].total = Max2(0, orders[i].subtotal - orders[i].coupon_discount)
                          + orders[i].delivery_fee

\* C6: used_count grows by exactly 1 for each order created with the coupon
\* (a request that has created its order and not yet reached the increment is
\* the only difference between the two counts), and no other step changes it.
InFlightWith(k) == {s \in Sessions : po[s].pc \in {"items", "coupon"} /\ po[s].coupon = k}

UsedCountBalanced ==
    \A k \in DOMAIN coupons :
        coupons[k].used_count = Cardinality(OrdersWith(k)) - Cardinality(InFlightWith(k))

C6_UsedCountPerOrder ==
    [][/\ UsedCountBalanced'
       /\ \A k \in DOMAIN coupons :
             LET finishing == {s \in Sessions : /\ po[s].pc = "coupon"
                                                /\ po[s].coupon = k
                                                /\ po'[s].pc = "idle"}
             IN  /\ k \in DOMAIN coupons'
                 /\ coupons'[k].used_count
                       = coupons[k].used_count + Cardinality(finishing)]_vars

\* Two orders were placed with the same coupon, its used_count is 2 and one of
\* the orders has since been cancelled.
C6_Witness ==
    \E k \in DOMAIN coupons :
        /\ coupons[k].used_count = 2
        /\ Cardinality(OrdersWith(k)) = 2
        /\ \E i \in OrdersWith(k) : orders[i].status = "cancelled"
        /\ \A s \in Sessions : ~Busy(s)

\* C9: a personal coupon with an assigned user is never used by anyone else:
\* totals of another requester that selected it show no discount and no fee
\* waiver from it, no order of another requester records its code, and its
\* used_count changes only in a place-order request of the assigned user.
NotOwner(s, k) == sessions[s].user = Anonymous \/ sessions[s].user # coupons[k].assigned_user

C9_PersonalCouponOwnerOnly ==
    [][\A k \in DOMAIN coupons :
          (coupons[k].is_personal /\ coupons[k].assigned_user # NoUser) =>
             /\ \A s \in Sessions :
                   (NotOwner(s, k) /\ Upper(sessions[s].coupon_code) = Upper(coupons[k].code)) =>
                      LET t == _cart_totals(s)
                      IN  /\ t.coupon_discount = 0
                          /\ ~t.delivery_fee_waived
                          /\ ~t.coupon.active
                          /\ t.total = t.subtotal + t.delivery_fee
             /\ \A i \in OrdersWith(k) : orders[i].user = coupons[k].assigned_user
             /\ \A s \in Sessions :
                   (NotOwner(s, k) /\ po[s].pc # "idle") => po[s].coupon # k
             /\ coupons'[k].used_count # coupons[k].used_count =>
                   \E s \in Sessions : /\ ~NotOwner(s, k)
                                       /\ po[s].pc = "coupon" /\ po[s].coupon = k]_vars

\* A requester other than the assigned user selected the personal coupon and
\* is placing an order with it selected: the order is created without it.
C9_Witness ==
    \E s \in Sessions, k \in DOMAIN coupons :
        /\ coupons[k].is_personal /\ coupons[k].assigned_user # NoUser
        /\ NotOwner(s, k)
        /\ sessions[s].coupon_code = coupons[k].code
        /\ po[s].pc = "coupon"
        /\ orders[po[s].order].coupon_code = ""

\* C10: is_current is the conjunction of is_active, the optional start and end
\* bounds (inclusive) and used_count < max_uses when capped; a coupon that is
\* not current gives nothing in totals and is recorded by no order placed then.
CurrentPerSpec(c, nw) ==
    /\ c.is_active
    /\ (c.start_at # None => nw >= c.start_at)
    /\ (c.end_at # None => nw <= c.end_at)
    /\ (c.max_uses # None => c.used_count < c.max_uses)

C10_IsCurrent ==
    [][\A k \in DOMAIN coupons :
          /\ is_current(coupons[k], now) <=> CurrentPerSpec(coupons[k], now)
          /\ ~CurrentPerSpec(coupons[k], now) =>
                /\ \A s \in Sessions :
                      Upper(sessions[s].coupon_code) = Upper(coupons[k].code) =>
                         LET t == _cart_totals(s)
                         IN  /\ t.coupon_discount = 0
                             /\ ~t.delivery_fee_waived
                             /\ ~t.coupon.active
                /\ \A i \in DOMAIN orders' \ DOMAIN orders :
                      orders'[i].coupon_code # coupons[k].code]_vars

\* The coupon with max_uses = 1 has been used once while another session had
\* selected it, and that session then placed its own order without it.
C10_Witness ==
    \E k \in DOMAIN coupons, i \in DOMAIN orders :
        /\ coupons[k].max_uses = 1 /\ coupons[k].used_count = 1
        /\ coupons[k].start_at = None
        /\ OrdersWith(k) # {}
        /\ orders[i].coupon_code = ""
        /\ orders[i].user = NoUser
        /\ \A j \in OrdersWith(k) : j < i

\* C11: when the active promotion grants free delivery and the subtotal
\* reaches its min_subtotal, the fee stored by a set-location request is 0;
\* in every other case it is the distance fee unchanged.
PromoFeePerSpec(fee, subtotal, k) ==
    IF k # 0 /\ promotions[k].free_delivery /\ subtotal >= Or(promotions[k].min_subtotal, 0)
    THEN 0 ELSE fee

C11_PromotionWaivesFee ==
    [][\A loc \in {NearPlace, FarPlace} :
          delivery_set_location("s1", loc)
          => sessions'["s1"].delivery_fee =
                PromoFeePerSpec(delivery_fee_for_distance(loc.dist),
                                SumField(CartLines(sessions["s1"].cart), "line_total"),
                                _active_promo)]_vars

\* C12: a cart summary of a non-empty cart whose session holds a current
\* free-delivery coupon the requester may use reports delivery fee 0 when the
\* subtotal reaches the coupon's min_subtotal, whatever promotion is in
\* force, and the stored fee when it does not; the coupon discount is 0 in
\* both cases.
SelectedCoupon(s, k) ==
    /\ k = LookupCoupon(sessions[s].coupon_code)
    /\ sessions[s].coupon_code # ""
    /\ CurrentPerSpec(coupons[k], now)
    /\ coupons[k].is_personal => coupons[k].assigned_user = sessions[s].user

PricedSubtotal(s) == SumField(CartLines(sessions[s].cart), "line_total")

C12_FreeDeliveryCoupon ==
    [][\A s \in Sessions : \A k \in DOMAIN coupons :
          (/\ summary'[s] # summary[s]
           /\ summary'[s].cart.count > 0
           /\ SelectedCoupon(s, k)
           /\ coupons[k].discount_type = "free_delivery")
          => /\ summary'[s].cart.coupon_discount = 0
             /\ PricedSubtotal(s) >= coupons[k].min_subtotal
                   => summary'[s].cart.delivery_fee = 0
             /\ PricedSubtotal(s) < coupons[k].min_subtotal
                   => summary'[s].cart.delivery_fee = Or(sessions[s].delivery_fee, 0)]_vars

\* A summary taken 5 km away with 10.00 in the cart and FREE selected while a
\* promotion is in force: the fee of 2.97 is waived.
C12_Witness ==
    /\ summary["s1"].ok
    /\ summary["s1"].cart.subtotal = 1000
    /\ summary["s1"].cart.coupon.code = "FREE"
    /\ summary["s1"].cart.delivery_fee = 0
    /\ summary["s1"].cart.coupon_discount = 0
    /\ sessions["s1"].delivery_fee = 297
    /\ sessions["s1"].delivery_promo.active

\* The same coupon below its minimum: the stored fee stays.
C12_WitnessBelow ==
    /\ summary["s1"].ok
    /\ summary["s1"].cart.subtotal = 500
    /\ summary["s1"].cart.coupon.code = "FREE"
    /\ summary["s1"].cart.delivery_fee = 297

\* C13: for a fixed or percent coupon and a subtotal >= 0, compute_discount
\* is 0 below min_subtotal and otherwise discount_value (fixed) or
\* subtotal * discount_value / 100 (percent) clamped to [0, subtotal]; a cart
\* summary with such a coupon selected reports that discount and
\* total = subtotal - discount + fee (10 percent of 50.00 is 5.00, total
\* 45.00 + fee). The rule is stated in hundredths of a cent, so that the
\* division by 100 is exact.
SubtotalInputs == {0, 500, 1000, 2500, 5000}

ClampTo(x, lo, hi) == IF x < lo THEN lo ELSE IF x > hi THEN hi ELSE x

DiscountPerSpec(c, subtotal) ==
    IF subtotal < c.min_subtotal THEN 0
    ELSE ClampTo(IF c.discount_type = "fixed" THEN 100 * c.discount_value
                 ELSE subtotal * c.discount_value,
                 0, 100 * subtotal)

C13_ComputeDiscount ==
    [][/\ \A k \in DOMAIN coupons : \A subtotal \in SubtotalInputs :
             coupons[k].discount_type \in {"fixed", "percent"}
             => 100 * compute_discount(coupons[k], subtotal)
                   = DiscountPerSpec(coupons[k], subtotal)
       /\ \A s \in Sessions : \A k \in DOMAIN coupons :
             (/\ summary'[s] # summary[s]
              /\ summary'[s].cart.count > 0
              /\ SelectedCoupon(s, k)
              /\ coupons[k].discount_type \in {"fixed", "percent"})
             => /\ 100 * summary'[s].cart.coupon_discount
                      = DiscountPerSpec(coupons[k], PricedSubtotal(s))
                /\ summary'[s].cart.total
                      = PricedSubtotal(s) - summary'[s].cart.coupon_discount
                        + Or(sessions[s].delivery_fee, 0)]_vars

\* The 10 percent coupon on 50.00, 5 km away: discount 5.00, total 45.00 + 2.97.
C13_Witness ==
    /\ summary["s1"].ok
    /\ summary["s1"].cart.coupon.code = "PERCENT10"
    /\ summary["s1"].cart.subtotal = 5000
    /\ summary["s1"].cart.coupon_discount = 500
    /\ summary["s1"].cart.total = 4500 + 297

\* C14: two successive calls of the loyalty accrual for an eligible user,
\* with nothing happening in between, return the same coupon, and the second
\* call creates none.
Users == {"u1", "u2"}

C14_AccrualIdempotent ==
    \A u \in Users :
        LET once == _ensure_loyalty_coupon_for_user(u, coupons, orders)
        IN  EnsuredCoupon(u, coupons, orders) # 0
            => /\ _ensure_loyalty_coupon_for_user(u, once, orders) = once
               /\ EnsuredCoupon(u, once, orders) = EnsuredCoupon(u, coupons, orders)

\* u1 is eligible and a call has issued their coupon, which is still current.
C14_Witness ==
    /\ _loyalty_delivered_count("u1", orders) >= _loyalty_config.target
    /\ \E k \in DOMAIN coupons :
          /\ coupons[k].is_personal /\ coupons[k].assigned_user = "u1"
          /\ is_current(coupons[k], now)
          /\ EnsuredCoupon("u1", coupons, orders) = k

\* C15: a loyalty coupon is created for a user only when the orders of that
\* user with status delivered and created_at in [start, end) of the current
\* month number at least target_orders; orders of other users, of other
\* months or in another status do not count.
DeliveredThisMonth(u) ==
    Cardinality({i \in DOMAIN orders :
        /\ orders[i].user = u
        /\ orders[i].status = "delivered"
        /\ MonthOf(orders[i].created_at) = MonthOf(now)})

C15_NoCouponBelowTarget ==
    [][\A k \in DOMAIN coupons' \ DOMAIN coupons :
          \E u \in Users :
              /\ coupons'[k].assigned_user = u
              /\ DeliveredThisMonth(u)' >= loyalty.target_orders]_vars

\* In the second month u1 has two delivered orders, one of each month, and the
\* accrual that ran on the second delivery has issued nothing.
C15_Witness ==
    /\ MonthOf(now) = 2
    /\ Len(orders) = 2
    /\ \A i \in DOMAIN orders : orders[i].user = "u1" /\ orders[i].status = "delivered"
    /\ MonthOf(orders[1].created_at) = 1
    /\ MonthOf(orders[2].created_at) = 2
    /\ coupons = <<>>

\* C16: whenever a staff status update, single or bulk, sets an order of a
\* registered user to delivered and the user's delivered orders of the month
\* thereby number at least target_orders while the program is enabled, the
\* request ends with a current personal percent coupon of max_uses 1,
\* assigned to that user and valid for the calendar month.
MonthCoupon(c, u, nw) ==
    /\ c.is_personal /\ c.assigned_user = u
    /\ c.discount_type = "percent"
    /\ c.max_uses = 1
    /\ CurrentPerSpec(c, nw)
    /\ c.start_at = MonthStartDay[MonthOf(nw)] * 86400
    /\ c.end_at = MonthStartDay[MonthOf(nw) + 1] * 86400

C16_DeliveredGrantsCoupon ==
    [][\A pk \in DOMAIN orders : \A u \in Users :
          (/\ Len(orders') = Len(orders)
           /\ orders[pk].status # "delivered"
           /\ orders'[pk].status = "delivered"
           /\ orders[pk].user = u
           /\ loyalty.exists /\ loyalty.is_active
           /\ DeliveredThisMonth(u)' >= loyalty.target_orders)
          => \E k \in DOMAIN coupons' : MonthCoupon(coupons'[k], u, now)]_vars

\* u1 redeemed the coupon of their first delivery on a second order; when that
\* order was delivered too, a new current coupon stood beside the used one.
C16_Witness ==
    /\ \A i \in DOMAIN orders : orders[i].user = "u1" /\ orders[i].status = "delivered"
    /\ \E j, k \in DOMAIN coupons :
          /\ coupons[j].assigned_user = "u1" /\ coupons[j].used_count = 1
          /\ MonthCoupon(coupons[k], "u1", now)

\* C17: a cart summary of a cart with no priced lines reports subtotal 0,
\* delivery fee 0, coupon discount 0 and total 0 whatever fee the session
\* stores, and its coupon information still shows a selected current coupon
\* as active, with its code.
C17_EmptyCartTotals ==
    [][\A s \in Sessions :
          (summary'[s] # summary[s] /\ CartLines(sessions[s].cart) = {})
          => /\ summary'[s].cart.subtotal = 0
             /\ summary'[s].cart.delivery_fee = 0
             /\ summary'[s].cart.coupon_discount = 0
             /\ summary'[s].cart.total = 0
             /\ \A k \in DOMAIN coupons :
                   SelectedCoupon(s, k)
                   => /\ summary'[s].cart.coupon.active
                      /\ summary'[s].cart.coupon.code = coupons[k].code]_vars

\* The summary of an emptied cart with FIX10 selected and a fee of 2.97 stored.
C17_Witness ==
    /\ summary["s1"].ok
    /\ summary["s1"].cart.count = 0
    /\ summary["s1"].cart.total = 0
    /\ summary["s1"].cart.coupon.active
    /\ summary["s1"].cart.coupon.code = "FIX10"
    /\ sessions["s1"].cart = EmptyCart
    /\ sessions["s1"].delivery_fee = 297

OnGrid(st) == st[2] % 30 = 0 /\ st[3] = 0
InFuture(st, nw) == st[1] * 86400 + st[2] * 60 + st[3] >= nw
InOpeningHours(st) == 10 * 60 <= st[2] /\ st[2] <= 21 * 60 + 30

C19_OpeningHours ==
    [][\A st \in StartInputs, ps \in PartyInputs, pre \in PreInputs :
          (/\ reservation("a", st[1], st[2], st[3], ps[1], ps[2], pre)
           /\ OnGrid(st) /\ InFuture(st, now))
          => /\ ReservationForm_clean(st[1], st[2], st[3], now).ok <=> InOpeningHours(st)
             /\ InOpeningHours(st) => resp'["a"].kind # "form_error"
             /\ ~InOpeningHours(st) => /\ resp'["a"].kind = "form_error"
                                       /\ reservations' = reservations]_vars

\* A table is booked for 21:30 and a later request for 22:00 has been refused
\* as after the last start time.
C19_Witness ==
    /\ \E r \in reservations :
          Hour(r.start_datetime) = 21 /\ Minute(r.start_datetime) = 30
    /\ resp["a"].kind = "form_error"
    /\ resp["a"].reason = "last_start"

\* C20: every stored reservation starts exactly on a 30-minute boundary, and a
\* booking request whose start has a minute outside {0, 30} (21:45) or a
\* non-zero second (21:30:15) is refused and creates no reservation.
C20_GridOnly ==
    [][/\ \A r \in reservations' :
             Minute(r.start_datetime) \in {0, 30} /\ Second(r.start_datetime) = 0
       /\ \A st \in StartInputs, ps \in PartyInputs, pre \in PreInputs :
             (reservation("a", st[1], st[2], st[3], ps[1], ps[2], pre) /\ ~OnGrid(st))
             => /\ resp'["a"].kind = "form_error"
                /\ reservations' = reservations]_vars

\* C21: every stored reservation has tables_needed = max(1, ceil(party_size/4))
\* for its own party_size (1, 4, 5, 8, 9 give 1, 1, 2, 2, 3), and the capacity
\* check sums exactly that value: a request is refused for lack of tables
\* precisely when the chairs and baby seats suffice and the tables so derived
\* of the slot's rows plus its own exceed 14.
TablesPerSpec(party_size) ==
    CASE party_size = 1 -> 1
      [] party_size = 4 -> 1
      [] party_size = 5 -> 2
      [] party_size = 8 -> 2
      [] party_size = 9 -> 3
      [] OTHER -> IF party_size <= 0 THEN 1 ELSE (party_size + 3) \div 4

RECURSIVE SumTablesPerSpec(_)
SumTablesPerSpec(rows) ==
    IF rows = {} THEN 0
    ELSE LET r == CHOOSE x \in rows : TRUE
         IN  TablesPerSpec(r.party_size) + SumTablesPerSpec(rows \ {r})

C21_TablesNeeded ==
    [][/\ \A r \in reservations' : r.tables_needed = TablesPerSpec(r.party_size)
       /\ \A ps \in TableParties :
             reservation("a", 0, 1290, 0, ps, 0, <<>>)
             => (resp'["a"].reason = "tables"
                 <=> /\ SumField(reservations, "party_size") + ps <= CHAIRS_TOTAL
                     /\ SumTablesPerSpec(reservations) + TablesPerSpec(ps) > TABLES_TOTAL)]_vars

\* Parties of 17, 17 and 9 hold 5 + 5 + 3 = 13 tables and 43 chairs, and a
\* further party needing two tables has been refused for lack of tables.
C21_Witness ==
    /\ Cardinality(reservations) = 3
    /\ SumField(reservations, "tables_needed") = 13
    /\ \E r \in reservations : r.party_size = 9 /\ r.tables_needed = 3
    /\ resp["a"].reason = "tables"

\* C22: for every distance and pricing policy the fee is 0 when
\* distance <= 0, base_fee when 0 < distance <= base_km and
\* base_fee + (distance - base_km) * per_km_fee otherwise, never above
\* max_fee and rounded to the cent; with the default policy (2 km, 0.00,
\* 0.99 per km, 8.99) 1.5 km gives 0.00, 5 km gives 2.97 and 20 km gives 8.99.
\* The rule is stated in hundredths of a cent.
PolicyInForce ==
    LET act == {k \in DOMAIN pricing : pricing[k].is_active}
    IN  IF act = {}
        THEN [base_km |-> 200, base_fee |-> 0, per_km_fee |-> 99, max_fee |-> 899]
        ELSE LET k == CHOOSE i \in act : \A j \in act : pricing[j].updated_at <= pricing[i].updated_at
             IN  [base_km |-> pricing[k].base_km, base_fee |-> pricing[k].base_fee,
                  per_km_fee |-> pricing[k].per_km_fee, max_fee |-> pricing[k].max_fee]

ExactFee(d, p) ==
    IF d <= p.base_km THEN 100 * p.base_fee
    ELSE 100 * p.base_fee + (d - p.base_km) * p.per_km_fee

FeePerSpec(d, p, fee) ==
    IF d <= 0 THEN fee = 0
    ELSE /\ fee <= p.max_fee
         /\ LET capped == IF ExactFee(d, p) > 100 * p.max_fee THEN 100 * p.max_fee
                          ELSE ExactFee(d, p)
            IN  100 * fee - capped <= 50 /\ capped - 100 * fee <= 50

C22_FeeForDistance ==
    [][/\ \A loc \in FeePlaces :
             delivery_set_location("s1", loc)
             => /\ FeePerSpec(loc.dist, PolicyInForce, sessions'["s1"].delivery_fee)
                /\ sessions'["s1"].delivery_fee = delivery_fee_for_distance(loc.dist)
       /\ pricing = <<>>
             => /\ delivery_fee_for_distance(150) = 0
                /\ delivery_fee_for_distance(500) = 297
                /\ delivery_fee_for_distance(2000) = 899]_vars

\* Under the policy of 2.00 up to 3 km and 1.50 per km, capped at 10.00, the
\* customer 20 km away has a stored fee of 10.00.
C22_Witness ==
    /\ Len(pricing) = 1 /\ pricing[1].is_active /\ pricing[1].max_fee = 1000
    /\ sessions["s1"].delivery_distance_km = 2000
    /\ sessions["s1"].delivery_fee = 1000

\* C23: the active promotion is the most recently created one among the
\* promotions that are active and whose optional [start_at, end_at] window
\* contains now, and there is none only when no promotion satisfies both; a
\* set-location request reports a promotion as active accordingly.
InWindow(p, nw) ==
    /\ p.is_active
    /\ (p.start_at # None => p.start_at <= nw)
    /\ (p.end_at # None => nw <= p.end_at)

ActivePromoPerSpec ==
    LET ok == {k \in DOMAIN promotions : InWindow(promotions[k], now)}
    IN  IF ok = {} THEN 0
        ELSE CHOOSE k \in ok : \A j \in ok : promotions[j].created_at <= promotions[k].created_at

C23_ActivePromotion ==
    [][/\ _active_promo = ActivePromoPerSpec
       /\ \A loc \in {NearPlace, FarPlace} :
             delivery_set_location("s1", loc)
             => (sessions'["s1"].delivery_promo.active <=> ActivePromoPerSpec # 0)]_vars

\* C24: the status of a reservation changes only along
\* pending -> confirmed -> completed or from a non-final status to cancelled:
\* no single or bulk update moves a reservation backwards or out of cancelled
\* or completed.
ReservationStep(a, b) ==
    \/ a = b
    \/ a = "pending" /\ b = "confirmed"
    \/ a = "confirmed" /\ b = "completed"
    \/ a \in {"pending", "confirmed"} /\ b = "cancelled"

C24_ReservationLifecycle ==
    [][\A r \in reservations : \A q \in reservations' :
          r.id = q.id => ReservationStep(r.status, q.status)]_vars

\* C25: the status of a delivery order only moves forward in the order
\* pending, accepted, preparing, out_for_delivery, delivered, or to cancelled:
\* no single or bulk update returns an order to an earlier status or reopens
\* a cancelled or delivered order.
StatusRank(st) ==
    CASE st = "pending" -> 1
      [] st = "accepted" -> 2
      [] st = "preparing" -> 3
      [] st = "out_for_delivery" -> 4
      [] st = "delivered" -> 5
      [] OTHER -> 6

OrderStep(a, b) ==
    \/ a = b
    \/ a # "cancelled" /\ b # "cancelled" /\ StatusRank(a) < StatusRank(b)
    \/ a \notin {"cancelled", "delivered"} /\ b = "cancelled"

C25_OrderStatusForward ==
    [][\A i \in DOMAIN orders : OrderStep(orders[i].status, orders'[i].status)]_vars

\* C26: placing an order is all-or-nothing: once no place-order request is
\* running, also after a request that failed between two of its statements,
\* every delivery order has its line items and every coupon's used_count
\* covers the orders that record its code.
C26_AllOrNothing ==
    (\A s \in Sessions : ~Busy(s)) =>
        /\ \A i \in DOMAIN orders : \E it \in orderItems : it.order = i
        /\ \A k \in DOMAIN coupons : coupons[k].used_count >= Cardinality(OrdersWith(k))

\* C27: a failure of the notification collaborator (missing configuration,
\* timeout, HTTP or API error) never fails or undoes the primary operation: a
\* valid booking is stored and answered as placed, a valid order is stored
\* with its lines, the cart is cleared and the request answers as placed,
\* exactly as when the notification is delivered.
BookingAccepted(t) ==
    /\ ReservationForm_clean(0, t, 0, now).ok
    /\ Reservation_clean(ReservationForm_clean(0, t, 0, now).start, 4, 0,
                         reservations, now) = NoError

C27_NotificationNonFatal ==
    [][/\ (reservation("a", 0, 21 * 60 + 30, 0, 4, 0, <<>>)
             /\ BookingAccepted(21 * 60 + 30))
          => /\ resp'["a"].kind = "ok"
             /\ \E r \in reservations' \ reservations : r.id = resp'["a"].rid
       /\ (delivery_place_order("s1", "Aino", GoodPhone)
             /\ PlaceOrderLocals("s1", "Aino", GoodPhone).pc = "create")
          => /\ Len(orders') = Len(orders) + 1
             /\ \E it \in orderItems' : it.order = Len(orders')
             /\ po'["s1"].last = "placed"
             /\ sessions'["s1"].cart = EmptyCart
             /\ sessions'["s1"].last_delivery_order_id = Len(orders')]_vars

\* A booking and an order were both placed while the notification failed: the
\* failures are in the log, the rows are stored and both answers are success.
C27_Witness ==
    /\ \E i \in DOMAIN telegram.log : telegram.log[i].kind = "reservation"
    /\ \E i \in DOMAIN telegram.log : telegram.log[i].kind = "delivery"
    /\ telegram.outcome \in {"no_config", "timeout", "http_error", "api_error"}
    /\ resp["a"].kind = "ok"
    /\ \E r \in reservations : r.id = resp["a"].rid
    /\ po["s1"].last = "placed"
    /\ Len(orders) >= 1

\* C28: a place-order request rejected by validation (no delivery location,
\* empty cart, missing name or phone, phone not a valid +358/358 number)
\* creates no order and no order item and leaves the cart, the selected
\* coupon and every used_count unchanged; each of these defects rejects.
PlaceOrderRejections == {"no_location", "empty_cart", "missing_contact", "bad_phone"}

PlaceOrderDefect(s, nm, ph) ==
    \/ sessions[s].delivery_lat = None
    \/ sessions[s].cart = EmptyCart
    \/ nm = "" /\ sessions[s].customer_name = ""
    \/ ph = <<>> /\ sessions[s].customer_phone = <<>>
    \/ ph = BadPhone

C28_RejectedChangesNothing ==
    [][\A nm \in NameInputs, ph \in PhoneInputs :
          delivery_place_order("s1", nm, ph)
          => /\ PlaceOrderDefect("s1", nm, ph) => po'["s1"].last \in PlaceOrderRejections
             /\ po'["s1"].last \in PlaceOrderRejections
                => /\ orders' = orders
                   /\ orderItems' = orderItems
                   /\ sessions'["s1"].cart = sessions["s1"].cart
                   /\ sessions'["s1"].coupon_code = sessions["s1"].coupon_code
                   /\ \A k \in DOMAIN coupons :
                         coupons'[k].used_count = coupons[k].used_count]_vars

\* A request with an invalid phone was rejected while the customer had a
\* location, items in the cart and the coupon FIX10 selected.
C28_Witness ==
    /\ po["s1"].last = "bad_phone"
    /\ sessions["s1"].delivery_lat # None
    /\ sessions["s1"].cart # EmptyCart
    /\ sessions["s1"].coupon_code = "FIX10"
    /\ orders = <<>>

\* C29: booking validation is fail-fast in a fixed order: the error reported
\* for a request is that of the first violated rule in the sequence
\* (1) start not in the future, (2) start not on the 30-minute grid,
\* (3) start outside opening hours, (4) capacity exceeded.
FirstViolatedRule(st, ps, nw, rows) ==
    IF ~InFuture(st, nw) THEN "past"
    ELSE IF ~OnGrid(st) THEN "interval"
    ELSE IF ~InOpeningHours(st) THEN "hours"
    ELSE IF CapacityError(st[1] * 86400 + st[2] * 60, ps[1], ps[2], rows) # NoError
    THEN "capacity"
    ELSE "none"

ReportedRule(r) ==
    CASE r.reason = "past" -> "past"
      [] r.reason = "interval" -> "interval"
      [] r.reason \in {"opening", "last_start"} -> "hours"
      [] r.reason \in {"seats", "baby_seats", "tables"} -> "capacity"
      [] r.kind = "ok" -> "none"
      [] OTHER -> "other"

C29_FailFastOrder ==
    [][\A st \in StartInputs, ps \in PartyInputs, pre \in PreInputs :
          (reservation("a", st[1], st[2], st[3], ps[1], ps[2], pre) /\ st[3] = 0)
          => ReportedRule(resp'["a"]) = FirstViolatedRule(st, ps, now, reservations)]_vars

\* C30: hidden catalog items never contribute to pricing: a hidden item, also
\* one hidden after it was added to the cart, adds nothing to the subtotal,
\* the count or the lines of the totals and gets no line item in an order
\* placed afterwards; an add or update request for a hidden item is rejected
\* and leaves the cart as it was.
HiddenInCart(s) ==
    {i \in DOMAIN sessions[s].cart : menu[i].status = "hidden"}

VisibleInCart(s) ==
    {i \in DOMAIN sessions[s].cart : menu[i].status # "hidden" /\ sessions[s].cart[i] > 0}

VisibleSubtotal(s) ==
    SumField({[id |-> i, v |-> menu[i].price * sessions[s].cart[i]] : i \in VisibleInCart(s)}, "v")

VisibleCount(s) ==
    SumField({[id |-> i, v |-> sessions[s].cart[i]] : i \in VisibleInCart(s)}, "v")

C30_HiddenNeverPriced ==
    [][/\ delivery_cart_summary("s1")
          => /\ summary'["s1"].cart.subtotal = VisibleSubtotal("s1")
             /\ summary'["s1"].cart.count = VisibleCount("s1")
             /\ {ln.id : ln \in summary'["s1"].cart.lines} = VisibleInCart("s1")
       /\ (delivery_place_order("s1", "Aino", GoodPhone) /\ po'["s1"].last = "placed")
          => /\ orders'[Len(orders')].subtotal = VisibleSubtotal("s1")
             /\ {it.name : it \in orderItems' \ orderItems}
                   = {menu[i].name : i \in VisibleInCart("s1")}
       /\ \A i \in {1, 2, 3} :
             ((delivery_cart_add("s1", i, 1) \/ delivery_cart_update("s1", i, 0))
                /\ menu[i].status = "hidden")
             => sessions'["s1"].cart = sessions["s1"].cart]_vars

\* The soup was hidden while in the cart next to a pizza: the summary answers
\* with the pizza alone, and an order holding only the pizza was placed before.
C30_Witness ==
    /\ menu[1].status = "hidden"
    /\ 1 \in DOMAIN sessions["s1"].cart
    /\ 2 \in DOMAIN sessions["s1"].cart
    /\ summary["s1"].ok
    /\ summary["s1"].cart.count = 1
    /\ summary["s1"].cart.subtotal = 1000
    /\ Len(orders) >= 1
    /\ \A it \in orderItems : it.name = "pizza"

\* C31: placed orders and reservations are snapshots: whatever staff change,
\* hide or delete in the catalog and whatever coupon they edit or delete, the
\* subtotal, delivery_fee, total, coupon_code and coupon_discount of every
\* order, its line items (name, qty, unit_price) and the unit_price of every
\* reservation item stay as they were written.
OrderSnapshot(o) ==
    <<o.subtotal, o.delivery_fee, o.total, o.coupon_code, o.coupon_discount>>

C31_Snapshots ==
    [][/\ \A i \in DOMAIN orders :
             /\ i \in DOMAIN orders'
             /\ OrderSnapshot(orders'[i]) = OrderSnapshot(orders[i])
             /\ {it \in orderItems' : it.order = i} = {it \in orderItems : it.order = i}
       /\ \A it \in resItems :
             \E jt \in resItems' : /\ jt.reservation = it.reservation
                                   /\ jt.menu_item = it.menu_item
                                   /\ jt.qty = it.qty
                                   /\ jt.unit_price = it.unit_price]_vars

\* The order keeps soup at 5.00, pizza at 10.00 and the 10.00 of FIX10 and
\* the pre-order keeps soup at 5.00, after the soup was repriced and hidden,
\* the pizza deleted and the coupon deleted.
C31_Witness ==
    /\ Len(orders) = 1
    /\ orders[1].coupon_code = "FIX10" /\ orders[1].coupon_discount = 1000
    /\ orders[1].subtotal = 1500
    /\ \E it \in orderItems : it.name = "soup" /\ it.unit_price = 500
    /\ \E it \in orderItems : it.name = "pizza" /\ it.unit_price = 1000
    /\ \E it \in resItems : it.menu_item = 1 /\ it.unit_price = 500
    /\ menu[1].price = 650 /\ menu[1].status = "hidden"
    /\ 2 \notin DOMAIN menu
    /\ 1 \notin DOMAIN coupons

\* C32: a staff edit of a coupon never changes its used_count, also when
\* the edit interleaves with a delivery_place_order redeeming the coupon: the
\* save of the edit leaves used_count as the table holds it, and no step
\* lowers the used_count of a coupon.
C32_EditKeepsUsedCount ==
    [][/\ (edit.pc = "loaded" /\ edit'.pc = "idle")
          => coupons'[edit.pk].used_count = coupons[edit.pk].used_count
       /\ \A k \in DOMAIN coupons :
             k \in DOMAIN coupons' => coupons'[k].used_count >= coupons[k].used_count]_vars

\* C33: a booking is accepted only if its start_datetime is strictly later
\* than the request time: a request whose start equals the current time is
\* rejected like one in the past, and stores nothing.
C33_StrictlyFuture ==
    [][\A st \in StartInputs, ps \in PartyInputs, pre \in PreInputs :
          (/\ reservation("a", st[1], st[2], st[3], ps[1], ps[2], pre)
           /\ st[1] * 86400 + st[2] * 60 + st[3] <= now)
          => /\ resp'["a"].kind # "ok"
             /\ reservations' = reservations]_vars

\* C34: the capacity check counts every row of the slot whatever its status:
\* the sums over all rows of a slot, cancelled and completed ones included,
\* stay within 55 chairs, 2 baby seats and 14 tables; setting a status leaves
\* the answer of the capacity check to every later request unchanged; the
\* sums of a slot only drop when a row is deleted.
SameRowsButStatus ==
    /\ {r.id : r \in reservations'} = {r.id : r \in reservations}
    /\ reservations' # reservations

C34_CancelledStillCounts ==
    [][/\ \A s \in {r.start_datetime : r \in reservations'} :
             LET rows == {r \in reservations' : r.start_datetime = s}
             IN  /\ SumField(rows, "party_size") <= CHAIRS_TOTAL
                 /\ SumField(rows, "baby_seats") <= BABY_SEATS_TOTAL
                 /\ SumField(rows, "tables_needed") <= TABLES_TOTAL
       /\ SameRowsButStatus
          => \A ps \in PartyInputs :
                CapacityError(21 * 3600 + 1800, ps[1], ps[2], reservations')
                   = CapacityError(21 * 3600 + 1800, ps[1], ps[2], reservations)
       /\ \A ps \in PartyInputs :
             (/\ reservation("a", 0, 21 * 60 + 30, 0, ps[1], ps[2], <<>>)
              /\ SumField(reservations, "party_size") + ps[1] > CHAIRS_TOTAL)
             => reservations' = reservations
       /\ SumField(reservations', "party_size") < SumField(reservations, "party_size")
          => \E r \in reservations : \A q \in reservations' : q.id # r.id]_vars

\* The slot holds a cancelled party of 30 and a party of 17, and a further
\* party of 17 has just been refused for lack of seats.
C34_Witness ==
    /\ \E r \in reservations : r.party_size = 30 /\ r.status = "cancelled"
    /\ \E r \in reservations : r.party_size = 17 /\ r.status = "pending"
    /\ Cardinality(reservations) = 2
    /\ resp["a"].reason = "seats"

\* C35: every order placed while a current, authorized coupon is selected in
\* the session records the coupon's code and adds one to its used_count, also
\* when the cart subtotal has dropped below the coupon's min_subtotal and the
\* coupon changes nothing; an order placed without such a coupon records no
\* code and changes no used_count.
C35_CouponRecordedBelowMinimum ==
    [][(delivery_place_order("s1", "Aino", GoodPhone) /\ po'["s1"].last = "placed")
       => /\ \A k \in DOMAIN coupons :
                SelectedCoupon("s1", k)
                => /\ orders'[Len(orders')].coupon_code = coupons[k].code
                   /\ coupons'[k].used_count = coupons[k].used_count + 1
                   /\ PricedSubtotal("s1") < coupons[k].min_subtotal
                         => /\ orders'[Len(orders')].coupon_discount = 0
                            /\ orders'[Len(orders')].total
                                  = orders'[Len(orders')].subtotal
                                       + orders'[Len(orders')].delivery_fee
          /\ (~\E k \in DOMAIN coupons : SelectedCoupon("s1", k))
                => /\ orders'[Len(orders')].coupon_code = ""
                   /\ coupons' = coupons]_vars

\* An order of one soup (5.00) records HALF with a discount of 0.00, and the
\* used_count of HALF counts it.
C35_Witness ==
    \E i \in DOMAIN orders :
        /\ orders[i].coupon_code = "HALF"
        /\ orders[i].subtotal = 500
        /\ orders[i].coupon_discount = 0
        /\ coupons[1].used_count >= 1

\* C36: the delivery fee priced into the totals is the one delivery_set_location
\* stored in the session. Cart add, cart update, apply-coupon and remove-coupon
\* leave the stored place, distance and fee as they were, so a later change of
\* the subtotal prices nothing again; the fee shown is the stored fee, except
\* that a free-delivery coupon that is granted or an empty cart shows 0.
StoredLocation(ss) ==
    <<ss.delivery_lat, ss.delivery_lng, ss.delivery_distance_km, ss.delivery_fee>>

C36_StoredFeeOnly ==
    [][/\ (\/ \E i \in DOMAIN menu : \E q \in 0 .. MaxQty :
                \/ delivery_cart_add("s1", i, q)
                \/ delivery_cart_update("s1", i, q)
           \/ \E code \in {"fix10", "FREE"} : delivery_apply_coupon("s1", code)
           \/ delivery_remove_coupon("s1"))
          => StoredLocation(sessions'["s1"]) = StoredLocation(sessions["s1"])
       /\ delivery_cart_summary("s1")
          => summary'["s1"].cart.delivery_fee =
                IF \/ summary'["s1"].cart.count <= 0
                   \/ \E k \in DOMAIN coupons :
                         /\ SelectedCoupon("s1", k)
                         /\ grants_free_delivery(coupons[k], PricedSubtotal("s1"))
                THEN 0
                ELSE Or(sessions["s1"].delivery_fee, 0)]_vars

\* The cart summary shows the fee of 2.97 stored for the far place, for a cart
\* of two soups with the coupon FIX10 selected.
C36_Witness ==
    /\ summary["s1"].ok
    /\ summary["s1"].cart.count = 2
    /\ summary["s1"].cart.coupon_discount > 0
    /\ sessions["s1"].delivery_fee = 297
    /\ sessions["s1"].delivery_distance_km = FarPlace.dist
    /\ summary["s1"].cart.delivery_fee = 297

\* C37: a placed order leaves the session with an empty cart and no coupon
\* selected, and with the stored place, distance and fee it had; the same
\* request sent again at once is rejected for the empty cart, and adds no
\* order, no order item and no used_count.
C37_NoDoubleOrder ==
    [][delivery_place_order("s1", "Aino", GoodPhone)
       => /\ po'["s1"].last = "placed"
                => /\ sessions'["s1"].cart = EmptyCart
                   /\ sessions'["s1"].coupon_code = ""
                   /\ StoredLocation(sessions'["s1"]) = StoredLocation(sessions["s1"])
                   /\ Len(orders') = Len(orders) + 1
          /\ po["s1"].last = "placed"
                => /\ po'["s1"].last = "empty_cart"
                   /\ orders' = orders
                   /\ orderItems' = orderItems
                   /\ coupons' = coupons]_vars

\* The second request was rejected for the empty cart: one order with HALF,
\* counted once, and the fee of the far place still stored.
C37_Witness ==
    /\ po["s1"].last = "empty_cart"
    /\ Len(orders) = 1
    /\ orders[1].coupon_code = "HALF"
    /\ coupons[1].used_count = 1
    /\ sessions["s1"].last_delivery_order_id = 1
    /\ sessions["s1"].cart = EmptyCart
    /\ sessions["s1"].delivery_fee = 297

\* C38: after any sequence of cart add and cart update requests every entry
\* of the cart has a quantity of at least 1: an add with a quantity of 0 or
\* less adds 1, an add for an item already in the cart adds to its quantity,
\* an update with a quantity of 0 or less removes the entry and an update with
\* a positive quantity replaces it; the other entries stay as they were.
QtyInCart(cart, i) == IF i \in DOMAIN cart THEN cart[i] ELSE 0

C38_CartQuantitiesPositive ==
    [][\A s \in Sessions :
          /\ \A j \in DOMAIN sessions'[s].cart : sessions'[s].cart[j] >= 1
          /\ \A i \in DOMAIN menu : \A q \in CartQtyInputs :
                menu[i].status # "hidden"
                => /\ delivery_cart_add(s, i, q)
                      => /\ QtyInCart(sessions'[s].cart, i)
                               = QtyInCart(sessions[s].cart, i) + (IF q <= 0 THEN 1 ELSE q)
                         /\ \A j \in DOMAIN menu \ {i} :
                               QtyInCart(sessions'[s].cart, j) = QtyInCart(sessions[s].cart, j)
                   /\ delivery_cart_update(s, i, q)
                      => /\ QtyInCart(sessions'[s].cart, i) = (IF q <= 0 THEN 0 ELSE q)
                         /\ \A j \in DOMAIN menu \ {i} :
                               QtyInCart(sessions'[s].cart, j) = QtyInCart(sessions[s].cart, j)]_vars

\* A cart holding three soups, from an add with a quantity of 0 or less and
\* an add of 2, and one pizza set by an update.
C38_Witness ==
    /\ DOMAIN sessions["s1"].cart = {1, 2}
    /\ sessions["s1"].cart[1] = 3
    /\ sessions["s1"].cart[2] = 1
    /\ sessions["s2"].cart = EmptyCart

====
